---- MODULE Spec2Model ----
(***************************************************************************)
(* Executor side of the form-generation pipeline: the durable task table,  *)
(* the two executor pollers (process_pending_executor_tasks in             *)
(* executor_worker.py and run_executor in executor/main.py), and the       *)
(* executor graph extract_task -> execute_forms_mcp -> send_response.      *)
(*                                                                         *)
(* A step of the model is one database transaction or one external call:   *)
(* these are the points at which the asyncio pollers can interleave.       *)
(* Row identity (uuid4) is modelled by the row's insertion index; it is    *)
(* only ever compared for equality.  NULL is "null" for text columns, 0    *)
(* for integer columns and <<>> for URLs.                                  *)
(***************************************************************************)
EXTENDS Integers, Sequences, FiniteSets, TLC

\* ---------------------------------------------------------------- bounds
NumConvs == 2
MaxExec == 2
MaxFaults == 1
MaxTurns == 2
NumVectors == 2
NumPayloads == 2
MaxFields == 2
MaxChars == 1
NumStored == 4

Convs == 1..NumConvs
Users == 1..NumConvs
Workers == {"w1", "w2"}
Mains == {"m1"}
Pollers == Workers \cup Mains

Null == "null"
NoUrl == <<>>

VARIABLES
    tasks,        \* agent_tasks table: sequence of rows, id = index
    forms,        \* forms table: sequence of rows
    convs,        \* conversations table, by conversation id
    users,        \* users table, by user id
    ext,          \* external form service: sequence of forms, id = index
    clock,        \* server clock used for created_at
    faults,       \* storage / external failures that have happened
    pc,           \* per poller: position in its cycle
    batch,        \* per poller: tasks of the cycle still to process
    gs,           \* per poller: ExecutorState of the running graph
    existing,     \* per poller: result of the existence lookup
    cycPending,   \* history: ids that were pending when the cycle fetched
    cycLog,       \* history: ids the cycle has taken up, in order
    ps,           \* PlannerState of the planner turn in progress
    index,        \* retrieval index: the points of the collection
    turns,        \* planner turns started
    icall,        \* history: the last store_embedding call made on its own
    upd,          \* an update_google_form call: the external form and the call
    applied,      \* the last application of a pure function: input, output
    http          \* the route call in progress or just answered

vars == <<tasks, forms, convs, users, ext, clock, faults, pc, batch, gs,
          existing, cycPending, cycLog, ps, index, turns, icall, upd,
          applied, http>>

\* the variables only the detailed planner turn and the index write
pvars == <<ps, index, turns, icall, upd, applied, http>>

\* ------------------------------------------------------------ row shapes
EmptyPayload ==
    [snapshot |-> 0, form_id |-> 0, form_url |-> NoUrl,
     error |-> Null, details |-> Null, status |-> Null]

NoResult == [form_id |-> 0, form_url |-> NoUrl, action |-> Null]

\* AgentTask(...) with the column defaults of the model class.
\* origin and claimed_by are history fields: the task whose run enqueued
\* this row, and the pollers whose claim of this row was committed.
AgentTask(conv, type, src, tgt, payload, now, origin) ==
    [conversation_id |-> conv, task_type |-> type, source_agent |-> src,
     target_agent |-> tgt, task_payload |-> payload, result |-> NoResult,
     status |-> "pending", error_message |-> Null, created_at |-> now,
     started_at |-> FALSE, completed_at |-> FALSE, origin |-> origin,
     claimed_by |-> {}]

Form(gid, user, conv, url) ==
    [google_form_id |-> gid, user_id |-> user, conversation_id |-> conv,
     form_url |-> url]

NoExecutorState == [form_id |-> 0, form_url |-> NoUrl, status |-> Null]

\* f"https://docs.google.com/forms/d/{form_id}/edit"
UrlOf(gid) == <<"https://docs.google.com/forms/d", gid, "edit">>

NoResponse ==
    [present |-> FALSE, success |-> FALSE, form_id |-> 0, form_url |-> NoUrl,
     error |-> Null, details |-> Null]

\* The ExecutorState dict; an absent key reads as NULL (state.get).
BlankState ==
    [task_id |-> 0, status |-> Null, conversation_id |-> 0,
     form_snapshot |-> 0, access_token |-> FALSE, refresh_token |-> FALSE,
     form_id |-> 0, form_url |-> NoUrl, error |-> Null, details |-> Null,
     response_payload |-> NoResponse]

\* initial_state of ExecutorAgent.process
InitialState(t) == [BlankState EXCEPT !.task_id = t, !.status = "pending"]

\* form_snapshot.get("description", ""): the empty description; a form
\* without a description reads as the same value
NoDescription == 0

\* descriptions of a snapshot, and of the external form before the call
Descriptions == {NoDescription, 1, 2}
CurrentDescriptions == {NoDescription, 1}

\* no update_google_form call in progress
NoUpdate ==
    [step |-> "none", items |-> <<>>, title |-> 0, fields |-> <<>>,
     new_title |-> 0, existing_items |-> <<>>, result |-> Null,
     before |-> <<>>, description |-> 0, new_description |-> 0,
     info_requests |-> {}, before_info |-> [title |-> 0, description |-> 0]]

\* no store_embedding call made yet
NoCall ==
    [made |-> FALSE, conversation_id |-> 0,
     vector |-> [len |-> 0, content |-> 0], payload |-> 0,
     raised |-> FALSE, error |-> Null, before |-> {}]

\* no route call made yet
NoHttp ==
    [route |-> "none", step |-> "none", conversation_id |-> 0, turn |-> 0,
     code |-> 0, error |-> Null,
     before |-> [status |-> Null, current_version |-> 0]]

\* no pure function applied yet
NoApply == [fn |-> "none", input |-> <<>>, output |-> <<>>]

\* the text of a generation call that returned nothing
NoText == [shape |-> "none", object |-> 0, call |-> 0]

\* the PlannerState dict; node is the graph node about to run, log holds the
\* outcomes of the llm.generate calls of the turn in order, before what was
\* stored when the turn began, indexing the branch steps 4 and 5 took once
\* the snapshot was saved (log, before and indexing are history)
IdlePlanner ==
    [node |-> "idle", conversation_id |-> 0, parsed |-> 0, llm_output |-> 0,
     error |-> Null, raw_output |-> NoText, log |-> <<>>, indexing |-> Null,
     before |-> [snapshot |-> 0, ntasks |-> 0, index |-> {}]]

TaskIds == 1..Len(tasks)
FormIds == 1..Len(forms)

Terminal(s) == s \in {"completed", "failed"}

\* ------------------------------------------------------------- queries
\* newest first instead of oldest first
RECURSIVE OrderByCreatedAt_Desc(_)
OrderByCreatedAt_Desc(S) ==
    IF S = {} THEN <<>>
    ELSE LET m == CHOOSE x \in S :
                    \A y \in S : tasks[x].created_at >= tasks[y].created_at
         IN <<m>> \o OrderByCreatedAt_Desc(S \ {m})

\* ORDER BY created_at over a set of row ids: ascending creation time.
RECURSIVE OrderByCreatedAt(_)
OrderByCreatedAt(S) ==
    IF S = {} THEN <<>>
    ELSE LET m == CHOOSE x \in S :
                    \A y \in S : tasks[x].created_at <= tasks[y].created_at
         IN <<m>> \o OrderByCreatedAt(S \ {m})

\* select(AgentTask).where(target_agent == "executor", status == "pending",
\*                         task_type == "execute_form")
PendingExecutorTasks ==
    {t \in TaskIds : /\ tasks[t].target_agent = "executor"
                     /\ tasks[t].status = "pending"
                     /\ tasks[t].task_type = "execute_form"}

\* select(AgentTask).where(status == "pending")
PendingAnyTasks == {t \in TaskIds : tasks[t].status = "pending"}

\* select(Form).where(Form.conversation_id == conversation_id)
FormsOf(c) == {f \in FormIds : forms[f].conversation_id = c}

\* the existence check left out: every materialization creates
ExistingForm_NoCheck(c) == 0

\* scalar_one_or_none(): 0 for no row, the row, or -1 for MultipleResultsFound
ExistingForm(c) ==
    IF FormsOf(c) = {} THEN 0
    ELSE IF Cardinality(FormsOf(c)) = 1 THEN CHOOSE f \in FormsOf(c) : TRUE
    ELSE -1

ExecCount ==
    Cardinality({t \in TaskIds : tasks[t].task_type = "execute_form"})

\* ------------------------------------------------------------ Init
Init ==
    /\ tasks = <<>>
    /\ forms = <<>>
    /\ convs = [c \in Convs |->
                  [user_id |-> c, form_snapshot |-> 0,
                   executor_state |-> NoExecutorState,
                   status |-> "active", current_version |-> 0]]
    /\ users = [u \in Users |->
                  [google_access_token |-> TRUE,
                   google_refresh_token |-> (u % 2 = 1)]]
    /\ ext = <<>>
    /\ clock = 1
    /\ faults = 0
    /\ pc = [p \in Pollers |-> "idle"]
    /\ batch = [p \in Pollers |-> <<>>]
    /\ gs = [p \in Pollers |-> BlankState]
    /\ existing = [p \in Pollers |-> 0]
    /\ cycPending = [p \in Pollers |-> {}]
    /\ cycLog = [p \in Pollers |-> <<>>]
    /\ ps = IdlePlanner
    /\ index = {}
    /\ turns = 0
    /\ icall = NoCall
    /\ applied = NoApply
    /\ http = NoHttp
    /\ upd = NoUpdate

\* ------------------------------------------------- planner-side handoff
\* llm_inference_node persists the parsed snapshot, a2a_sender_node then
\* inserts the execute_form task whose payload is that snapshot.
a2a_sender_node(c) ==
    /\ ExecCount < MaxExec
    /\ convs' = [convs EXCEPT ![c].form_snapshot = clock]
    /\ tasks' = Append(tasks,
                  AgentTask(c, "execute_form", "planner", "executor",
                            [EmptyPayload EXCEPT !.snapshot = clock],
                            clock, 0))
    /\ clock' = clock + 1
    /\ UNCHANGED <<forms, users, ext, faults, pc, batch, gs, existing,
                   cycPending, cycLog>>
    /\ UNCHANGED pvars

\* ------------------------------------------------------ executor graph
\* extract_task_node testing the access token only
ExtractResult_AccessOnly(s) ==
    IF s.task_id = 0
    THEN [s EXCEPT !.status = "failed", !.error = "missing_task_id",
                   !.details = "Task ID is required"]
    ELSE IF s.task_id \notin TaskIds
    THEN [s EXCEPT !.status = "failed", !.error = "task_not_found"]
    ELSE LET task == tasks[s.task_id] IN
         IF task.conversation_id \notin Convs
         THEN [s EXCEPT !.status = "failed", !.error = "conversation_not_found"]
         ELSE LET conversation == convs[task.conversation_id] IN
              IF conversation.user_id \notin Users
              THEN [s EXCEPT !.status = "failed", !.error = "user_not_found"]
              ELSE LET user == users[conversation.user_id] IN
                   IF ~user.google_access_token
                   THEN [s EXCEPT !.status = "failed",
                                  !.error = "missing_google_credentials",
                                  !.details = "User needs to authenticate with Google"]
                   ELSE IF task.task_payload = EmptyPayload
                   THEN [s EXCEPT !.status = "failed",
                                  !.error = "empty_form_snapshot"]
                   ELSE [s EXCEPT !.conversation_id = task.conversation_id,
                                  !.form_snapshot = task.task_payload.snapshot,
                                  !.access_token = user.google_access_token,
                                  !.refresh_token = user.google_refresh_token,
                                  !.status = "processing"]

\* extract_task_node: the state it returns for a graph state s.
ExtractResult(s) ==
    IF s.task_id = 0
    THEN [s EXCEPT !.status = "failed", !.error = "missing_task_id",
                   !.details = "Task ID is required"]
    ELSE IF s.task_id \notin TaskIds
    THEN [s EXCEPT !.status = "failed", !.error = "task_not_found"]
    ELSE LET task == tasks[s.task_id] IN
         IF task.conversation_id \notin Convs
         THEN [s EXCEPT !.status = "failed", !.error = "conversation_not_found"]
         ELSE LET conversation == convs[task.conversation_id] IN
              IF conversation.user_id \notin Users
              THEN [s EXCEPT !.status = "failed", !.error = "user_not_found"]
              ELSE LET user == users[conversation.user_id] IN
                   IF ~user.google_access_token \/ ~user.google_refresh_token
                   THEN [s EXCEPT !.status = "failed",
                                  !.error = "missing_google_credentials",
                                  !.details = "User needs to authenticate with Google"]
                   ELSE IF task.task_payload = EmptyPayload
                   THEN [s EXCEPT !.status = "failed",
                                  !.error = "empty_form_snapshot"]
                   ELSE [s EXCEPT !.conversation_id = task.conversation_id,
                                  !.form_snapshot = task.task_payload.snapshot,
                                  !.access_token = user.google_access_token,
                                  !.refresh_token = user.google_refresh_token,
                                  !.status = "processing"]

\* the except branch of extract_task_node
ExtractionError(s) ==
    [s EXCEPT !.status = "failed", !.error = "extraction_error",
              !.details = "exception"]

\* route_after_extract
\* an extract_task edge that ignores the status
route_after_extract_Always(s) == "success"

route_after_extract(s) == IF s.status = "failed" THEN "failed" ELSE "success"

\* the except branch of execute_forms_mcp_node
McpExecutionError(s) ==
    [s EXCEPT !.status = "failed", !.error = "mcp_execution_error",
              !.details = "exception"]

\* send_response_node, write 1: the originating task's row
OriginalTaskUpdate(row, status) ==
    [row EXCEPT !.status = status, !.completed_at = TRUE]

\* the stamp without the published marker
ExecutorStateStamp_Unpublished(s) ==
    [form_id |-> s.form_id, form_url |-> s.form_url, status |-> Null]

\* send_response_node, write 2: the conversation's executor_state
ExecutorStateStamp(s) ==
    [form_id |-> s.form_id, form_url |-> s.form_url, status |-> "published"]

\* a write that also closes the conversation
StampConversation_Closing(row, s) ==
    [row EXCEPT !.executor_state = ExecutorStateStamp(s),
                !.status = "completed"]

\* conversation.executor_state = {...}: the only field of the row written
StampConversation(row, s) ==
    [row EXCEPT !.executor_state = ExecutorStateStamp(s)]

\* send_response_node, write 3: the notification row for the planner
\* (<<>> when the status is neither completed nor failed)
ResponseTask(s, status, now) ==
    IF status = "completed"
    THEN <<AgentTask(s.conversation_id, "form_created", "executor", "planner",
                     [EmptyPayload EXCEPT !.form_id = s.form_id,
                                          !.form_url = s.form_url,
                                          !.status = "success"],
                     now, s.task_id)>>
    ELSE IF status = "failed"
    THEN <<AgentTask(s.conversation_id, "form_creation_failed", "executor",
                     "planner",
                     [EmptyPayload EXCEPT !.error = s.error,
                                          !.details = s.details,
                                          !.status = "failed"],
                     now, s.task_id)>>
    ELSE <<>>

\* agent_tasks.conversation_id is nullable=False: the flush of a row without
\* a conversation raises and the whole transaction is rolled back.
ViolatesNotNull(rows) == \E i \in 1..Len(rows) : rows[i].conversation_id = 0

\* send_response_node, step 4: the response payload
ResponsePayload(s, status) ==
    IF status = "completed"
    THEN [present |-> TRUE, success |-> TRUE, form_id |-> s.form_id,
          form_url |-> s.form_url, error |-> Null, details |-> Null]
    ELSE [present |-> TRUE, success |-> FALSE, form_id |-> 0,
          form_url |-> NoUrl, error |-> s.error, details |-> s.details]

\* the except branch of send_response_node
ResponseSendError(s) ==
    [s EXCEPT !.status = "failed", !.error = "response_send_error",
              !.details = "exception",
              !.response_payload =
                  [present |-> TRUE, success |-> FALSE, form_id |-> 0,
                   form_url |-> NoUrl, error |-> "response_send_error",
                   details |-> "exception"]]

\* a result that reports success whatever the final status is
ProcessResult_Optimistic(s) ==
    [success |-> TRUE, form_id |-> s.form_id,
     form_url |-> s.form_url, error |-> s.error, details |-> s.details]

\* ExecutorAgent.process: the result built from the final graph state
ProcessResult(s) ==
    [success |-> (s.status = "completed"), form_id |-> s.form_id,
     form_url |-> s.form_url, error |-> s.error, details |-> s.details]

\* ------------------------------------- poller of executor_worker.py
Cur(p) == Head(batch[p])

\* a worker that polls once: the end of the cycle ends the process
LoopNext_Once(p) ==
    /\ batch' = [batch EXCEPT ![p] = Tail(batch[p])]
    /\ gs' = [gs EXCEPT ![p] = BlankState]
    /\ existing' = [existing EXCEPT ![p] = 0]
    /\ pc' = [pc EXCEPT ![p] = IF Tail(batch[p]) = <<>> THEN "stopped"
                                ELSE "claim"]

\* the for loop moves on to the next task of the batch, or the cycle ends
LoopNext(p) ==
    /\ batch' = [batch EXCEPT ![p] = Tail(batch[p])]
    /\ gs' = [gs EXCEPT ![p] = BlankState]
    /\ existing' = [existing EXCEPT ![p] = 0]
    /\ pc' = [pc EXCEPT ![p] = IF Tail(batch[p]) = <<>> THEN "idle"
                                ELSE "claim"]

\* select ... order_by(created_at); an empty result ends the cycle at once
W_Fetch(p) ==
    /\ pc[p] = "idle"
    /\ PendingExecutorTasks # {}
    /\ batch' = [batch EXCEPT ![p] = OrderByCreatedAt(PendingExecutorTasks)]
    /\ cycPending' = [cycPending EXCEPT ![p] = PendingExecutorTasks]
    /\ cycLog' = [cycLog EXCEPT ![p] = <<>>]
    /\ pc' = [pc EXCEPT ![p] = "claim"]
    /\ UNCHANGED <<tasks, forms, convs, users, ext, clock, faults, gs,
                   existing>>
    /\ UNCHANGED pvars

\* task.status = "processing"; commit; then executor.process(task.id) starts
W_Claim(p) ==
    /\ pc[p] = "claim"
    /\ cycLog' = [cycLog EXCEPT ![p] = Append(@, Cur(p))]
    /\ \/ /\ tasks' = [tasks EXCEPT ![Cur(p)].status = "processing",
                                    ![Cur(p)].started_at = TRUE,
                                    ![Cur(p)].claimed_by = @ \cup {p}]
          /\ gs' = [gs EXCEPT ![p] = InitialState(Cur(p))]
          /\ pc' = [pc EXCEPT ![p] = "extract"]
          /\ UNCHANGED faults
       \/ /\ faults < MaxFaults
          /\ faults' = faults + 1
          /\ pc' = [pc EXCEPT ![p] = "handler"]
          /\ UNCHANGED <<tasks, gs>>
    /\ UNCHANGED <<forms, convs, users, ext, clock, batch, existing,
                   cycPending>>
    /\ UNCHANGED pvars

\* extract_task_node, then route_after_extract
W_Extract(p) ==
    /\ pc[p] = "extract"
    /\ \/ /\ gs' = [gs EXCEPT ![p] = ExtractResult(gs[p])]
          /\ UNCHANGED faults
       \/ /\ faults < MaxFaults
          /\ faults' = faults + 1
          /\ gs' = [gs EXCEPT ![p] = ExtractionError(gs[p])]
    /\ pc' = [pc EXCEPT ![p] = IF route_after_extract(gs'[p]) = "failed"
                                THEN "respond" ELSE "lookup"]
    /\ UNCHANGED <<tasks, forms, convs, users, ext, clock, batch, existing,
                   cycPending, cycLog>>
    /\ UNCHANGED pvars

\* execute_forms_mcp_node up to the existence check
W_Lookup(p) ==
    /\ pc[p] = "lookup"
    /\ IF gs[p].form_snapshot = 0
       THEN /\ gs' = [gs EXCEPT ![p] = [@ EXCEPT !.status = "failed",
                                          !.error = "missing_form_snapshot"]]
            /\ pc' = [pc EXCEPT ![p] = "respond"]
            /\ UNCHANGED existing
       ELSE IF ~gs[p].access_token \/ ~gs[p].refresh_token
       THEN /\ gs' = [gs EXCEPT ![p] = [@ EXCEPT !.status = "failed",
                                          !.error = "missing_credentials"]]
            /\ pc' = [pc EXCEPT ![p] = "respond"]
            /\ UNCHANGED existing
       ELSE IF ExistingForm(gs[p].conversation_id) = -1
       THEN /\ gs' = [gs EXCEPT ![p] = McpExecutionError(@)]
            /\ pc' = [pc EXCEPT ![p] = "respond"]
            /\ UNCHANGED existing
       ELSE /\ existing' = [existing EXCEPT ![p] =
                               ExistingForm(gs[p].conversation_id)]
            /\ pc' = [pc EXCEPT ![p] = "exec"]
            /\ UNCHANGED gs
    /\ UNCHANGED <<tasks, forms, convs, users, ext, clock, faults, batch,
                   cycPending, cycLog>>
    /\ UNCHANGED pvars

\* execute_forms_mcp_node after the existence check: update or create
W_Exec(p) ==
    /\ pc[p] = "exec"
    /\ pc' = [pc EXCEPT ![p] = "respond"]
    /\ IF existing[p] # 0
       THEN \* update_form_via_mcp on the stored external id
            \/ /\ ext' = [ext EXCEPT ![forms[existing[p]].google_form_id].content
                                        = gs[p].form_snapshot]
               /\ gs' = [gs EXCEPT ![p] =
                           [@ EXCEPT !.form_id = forms[existing[p]].google_form_id,
                                     !.form_url = forms[existing[p]].form_url,
                                     !.status = "completed"]]
               /\ UNCHANGED <<forms, faults>>
            \/ /\ faults < MaxFaults
               /\ faults' = faults + 1
               /\ gs' = [gs EXCEPT ![p] = McpExecutionError(@)]
               /\ UNCHANGED <<forms, ext>>
       ELSE \* create_form_via_mcp, then the Form row
            \/ /\ ext' = Append(ext, [content |-> gs[p].form_snapshot])
               /\ forms' = Append(forms,
                             Form(Len(ext) + 1,
                                  convs[gs[p].conversation_id].user_id,
                                  gs[p].conversation_id, UrlOf(Len(ext) + 1)))
               /\ gs' = [gs EXCEPT ![p] =
                           [@ EXCEPT !.form_id = Len(ext) + 1,
                                     !.form_url = UrlOf(Len(ext) + 1),
                                     !.status = "completed"]]
               /\ UNCHANGED faults
            \/ \* the external call raises
               /\ faults < MaxFaults
               /\ faults' = faults + 1
               /\ gs' = [gs EXCEPT ![p] = McpExecutionError(@)]
               /\ UNCHANGED <<forms, ext>>
            \/ \* the form is created but the commit of its row raises
               /\ faults < MaxFaults
               /\ faults' = faults + 1
               /\ ext' = Append(ext, [content |-> gs[p].form_snapshot])
               /\ gs' = [gs EXCEPT ![p] = McpExecutionError(@)]
               /\ UNCHANGED forms
    /\ UNCHANGED <<tasks, convs, users, clock, batch, existing, cycPending,
                   cycLog>>
    /\ UNCHANGED pvars

\* send_response_node: three writes, one commit
W_Respond(p) ==
    /\ pc[p] = "respond"
    /\ pc' = [pc EXCEPT ![p] = "finish"]
    /\ LET s == gs[p]
           status == s.status
           rows == ResponseTask(s, status, clock)
       IN \/ /\ ~ViolatesNotNull(rows)
             /\ tasks' = (IF s.task_id \in TaskIds
                          THEN [tasks EXCEPT ![s.task_id] =
                                   OriginalTaskUpdate(@, status)]
                          ELSE tasks) \o rows
             /\ convs' = IF s.conversation_id # 0 /\ status = "completed"
                             /\ s.form_url # NoUrl
                          THEN [convs EXCEPT ![s.conversation_id] =
                                   StampConversation(@, s)]
                          ELSE convs
             /\ clock' = clock + Len(rows)
             /\ gs' = [gs EXCEPT ![p] =
                         [@ EXCEPT !.response_payload =
                                       ResponsePayload(s, status)]]
             /\ UNCHANGED faults
          \/ \* the commit raises: nothing is stored
             /\ \/ ViolatesNotNull(rows) /\ UNCHANGED faults
                \/ /\ ~ViolatesNotNull(rows)
                   /\ faults < MaxFaults
                   /\ faults' = faults + 1
             /\ gs' = [gs EXCEPT ![p] = ResponseSendError(s)]
             /\ UNCHANGED <<tasks, convs, clock>>
    /\ UNCHANGED <<forms, users, ext, batch, existing, cycPending, cycLog>>
    /\ UNCHANGED pvars

\* the worker's own status write after executor.process returned
WorkerStatus(result) == IF result.success THEN "completed" ELSE "failed"

W_Finish(p) ==
    /\ pc[p] = "finish"
    /\ \/ /\ tasks' = [tasks EXCEPT
                         ![Cur(p)].status = WorkerStatus(ProcessResult(gs[p])),
                         ![Cur(p)].completed_at = TRUE]
          /\ LoopNext(p)
          /\ UNCHANGED faults
       \/ /\ faults < MaxFaults
          /\ faults' = faults + 1
          /\ pc' = [pc EXCEPT ![p] = "handler"]
          /\ UNCHANGED <<tasks, batch, gs, existing>>
    /\ UNCHANGED <<forms, convs, users, ext, clock, cycPending,
                   cycLog>>
    /\ UNCHANGED pvars

\* except Exception: task.status = "failed"; commit; rollback; continue.
\* The handler is entered only after a commit of the same session has
\* raised, and it commits again before it rolls back: that commit stores
\* failed, or it raises as well, and then the exception leaves the for loop
\* for the except of the whole function, which ends the cycle with the row
\* as the last successful commit left it.
W_Handler(p) ==
    /\ pc[p] = "handler"
    /\ \/ /\ tasks' = [tasks EXCEPT ![Cur(p)].status = "failed",
                                    ![Cur(p)].completed_at = TRUE]
          /\ LoopNext(p)
       \/ /\ batch' = [batch EXCEPT ![p] = <<>>]
          /\ gs' = [gs EXCEPT ![p] = BlankState]
          /\ existing' = [existing EXCEPT ![p] = 0]
          /\ pc' = [pc EXCEPT ![p] = "idle"]
          /\ UNCHANGED tasks
    /\ UNCHANGED <<forms, convs, users, ext, clock, faults,
                   cycPending, cycLog>>
    /\ UNCHANGED pvars

Worker(p) ==
    \/ W_Fetch(p) \/ W_Claim(p) \/ W_Extract(p) \/ W_Lookup(p)
    \/ W_Exec(p) \/ W_Respond(p) \/ W_Finish(p) \/ W_Handler(p)

\* ------------------------------------------ poller of executor/main.py
\* final_form.get("responderUri", ...) of the Forms API
ResponderUri(gid) == <<"https://docs.google.com/forms/d/e", gid, "viewform">>

\* run_executor returns (or raises into executor_worker_loop): cycle over
M_Return(p) ==
    /\ batch' = [batch EXCEPT ![p] = <<>>]
    /\ gs' = [gs EXCEPT ![p] = BlankState]
    /\ existing' = [existing EXCEPT ![p] = 0]
    /\ pc' = [pc EXCEPT ![p] = "idle"]

\* except Exception as e: status failed with error_message = str(e)
M_Failed(row) ==
    [row EXCEPT !.status = "failed", !.error_message = "exception",
                !.completed_at = TRUE]

M_Completed(row, gid, url, action) ==
    [row EXCEPT !.status = "completed", !.completed_at = TRUE,
                !.result = [form_id |-> gid, form_url |-> url,
                            action |-> action]]

\* select(AgentTask).where(status == "pending").order_by(created_at).limit(1)
M_Fetch(p) ==
    /\ pc[p] = "idle"
    /\ PendingAnyTasks # {}
    /\ batch' = [batch EXCEPT ![p] = SubSeq(OrderByCreatedAt(PendingAnyTasks), 1, 1)]
    /\ cycPending' = [cycPending EXCEPT ![p] = PendingAnyTasks]
    /\ cycLog' = [cycLog EXCEPT ![p] = <<>>]
    /\ pc' = [pc EXCEPT ![p] = "m_claim"]
    /\ UNCHANGED <<tasks, forms, convs, users, ext, clock, faults, gs,
                   existing>>
    /\ UNCHANGED pvars

\* task.status = "in_progress"; commit (outside the try block)
M_Claim(p) ==
    /\ pc[p] = "m_claim"
    /\ cycLog' = [cycLog EXCEPT ![p] = Append(@, Cur(p))]
    /\ \/ /\ tasks' = [tasks EXCEPT ![Cur(p)].status = "in_progress",
                                    ![Cur(p)].started_at = TRUE,
                                    ![Cur(p)].claimed_by = @ \cup {p}]
          /\ pc' = [pc EXCEPT ![p] = "m_load"]
          /\ UNCHANGED <<faults, batch, gs, existing>>
       \/ /\ faults < MaxFaults
          /\ faults' = faults + 1
          /\ M_Return(p)
          /\ UNCHANGED tasks
    /\ UNCHANGED <<forms, convs, users, ext, clock, cycPending>>
    /\ UNCHANGED pvars

\* load conversation and user, then the existence check
M_Load(p) ==
    /\ pc[p] = "m_load"
    /\ LET c == tasks[Cur(p)].conversation_id IN
       IF ExistingForm(c) = -1
       THEN /\ tasks' = [tasks EXCEPT ![Cur(p)] = M_Failed(@)]
            /\ M_Return(p)
       ELSE /\ gs' = [gs EXCEPT ![p] =
                        [BlankState EXCEPT !.task_id = Cur(p),
                                           !.conversation_id = c,
                                           !.form_snapshot = convs[c].form_snapshot]]
            /\ existing' = [existing EXCEPT ![p] = ExistingForm(c)]
            /\ pc' = [pc EXCEPT ![p] = "m_exec"]
            /\ UNCHANGED <<tasks, batch>>
    /\ UNCHANGED <<forms, convs, users, ext, clock, faults, cycPending,
                   cycLog>>
    /\ UNCHANGED pvars

\* update_google_form / create_google_form, then the commit of the outcome
\* (the Forms call raises: failed; the commit of the outcome raises: the
\* handler stores failed, or its own commit on the same session raises too
\* and the row stays in_progress)
M_Exec(p) ==
    /\ pc[p] = "m_exec"
    /\ M_Return(p)
    /\ IF existing[p] # 0
       THEN LET gid == forms[existing[p]].google_form_id IN
            \/ /\ ext' = [ext EXCEPT ![gid].content = gs[p].form_snapshot]
               /\ forms' = [forms EXCEPT ![existing[p]].form_url =
                                            ResponderUri(gid)]
               /\ tasks' = [tasks EXCEPT ![Cur(p)] =
                              M_Completed(@, gid, ResponderUri(gid), "updated")]
               /\ UNCHANGED faults
            \/ /\ faults < MaxFaults
               /\ faults' = faults + 1
               /\ tasks' = [tasks EXCEPT ![Cur(p)] = M_Failed(@)]
               /\ UNCHANGED <<forms, ext>>
            \/ /\ faults < MaxFaults
               /\ faults' = faults + 1
               /\ ext' = [ext EXCEPT ![gid].content = gs[p].form_snapshot]
               /\ UNCHANGED <<forms, tasks>>
       ELSE LET gid == Len(ext) + 1 IN
            \/ /\ ext' = Append(ext, [content |-> gs[p].form_snapshot])
               /\ forms' = Append(forms,
                             Form(gid, convs[gs[p].conversation_id].user_id,
                                  gs[p].conversation_id, ResponderUri(gid)))
               /\ tasks' = [tasks EXCEPT ![Cur(p)] =
                              M_Completed(@, gid, ResponderUri(gid), "created")]
               /\ UNCHANGED faults
            \/ /\ faults < MaxFaults
               /\ faults' = faults + 1
               /\ tasks' = [tasks EXCEPT ![Cur(p)] = M_Failed(@)]
               /\ UNCHANGED <<forms, ext>>
            \/ /\ faults < MaxFaults
               /\ faults' = faults + 1
               /\ ext' = Append(ext, [content |-> gs[p].form_snapshot])
               /\ tasks' = [tasks EXCEPT ![Cur(p)] = M_Failed(@)]
               /\ UNCHANGED forms
            \/ /\ faults < MaxFaults
               /\ faults' = faults + 1
               /\ ext' = Append(ext, [content |-> gs[p].form_snapshot])
               /\ UNCHANGED <<forms, tasks>>
    /\ UNCHANGED <<convs, users, clock, cycPending, cycLog>>
    /\ UNCHANGED pvars

Main(p) == M_Fetch(p) \/ M_Claim(p) \/ M_Load(p) \/ M_Exec(p)

\* -------------------------------------------------------- planner turn
\* A text returned by llm.generate: its shape decides what extract_json
\* makes of it, object is the JSON object it carries, call the generation
\* call that produced it.
TextShapes ==
    {"none", "empty", "object", "fenced", "wrapped", "array", "garbage"}

Texts(v, n) == {[shape |-> sh, object |-> v, call |-> n] : sh \in TextShapes}

\* llm.generate either raises or returns response.text
GenerateOutcomes(v, n) ==
    {[raised |-> TRUE, text |-> NoText]}
        \cup {[raised |-> FALSE, text |-> t] : t \in Texts(v, n)}

\* `not llm_output_raw`
Falsy(t) == t.shape \in {"none", "empty"}

\* extract_json: the parsed object, 0 when it raises.  A bare object parses
\* directly, a fenced one after the fences are removed, one wrapped in
\* explanation text through the {...} search; a JSON array is not an object
\* and anything else has no object in it.
extract_json(t) ==
    IF t.shape \in {"object", "fenced", "wrapped"} THEN t.object ELSE 0

\* embedder.embed either raises or returns a vector
vector_size == 1536
VectorLens == {0, 768, vector_size}
Vector(len, content) == [len |-> len, content |-> content]
EmbedOutcomes(v) ==
    {[raised |-> TRUE, vector |-> Vector(0, 0)]}
        \cup {[raised |-> FALSE, vector |-> Vector(n, v)] : n \in VectorLens}

\* PointStruct(id=conversation_id, vector, payload={...})
PointStruct(c, vector, payload) ==
    [id |-> c, vector |-> vector,
     payload |-> [conversation_id |-> c, form_snapshot |-> payload,
                  snapshot_type |-> "form_schema"]]

\* client.upsert: a point with the id of the new one is overwritten
Upsert_Add(idx, point) == idx \cup {point}

Upsert(idx, point) == {q \in idx : q.id # point.id} \cup {point}

\* store_embedding without the dimension check
store_embedding_Unchecked(idx, c, vector, payload, qok) ==
    IF ~qok
    THEN [raised |-> TRUE, error |-> "index_error", index |-> idx]
    ELSE [raised |-> FALSE, error |-> Null,
          index |-> Upsert(idx, PointStruct(c, vector, payload))]

\* QdrantClient.store_embedding: raises on a vector of the wrong length,
\* otherwise upserts the point whose id is the conversation id; an exception
\* of client.upsert (qok false) is logged and raised again
store_embedding(idx, c, vector, payload, qok) ==
    IF vector.len # vector_size
    THEN [raised |-> TRUE, error |-> "Vector dimension mismatch",
          index |-> idx]
    ELSE IF ~qok
    THEN [raised |-> TRUE, error |-> "index_error", index |-> idx]
    ELSE [raised |-> FALSE, error |-> Null,
          index |-> Upsert(idx, PointStruct(c, vector, payload))]

NoConv == 0

\* planner_graph.ainvoke from the routes, then intent_parser_node, which only
\* builds llm_input
intent_parser_node(c) ==
    /\ ps.node \in {"idle", "end"}
    /\ turns < MaxTurns
    /\ turns' = turns + 1
    /\ ps' = [IdlePlanner EXCEPT
                !.node = "llm_inference",
                !.conversation_id = c,
                !.before = [snapshot |-> IF c \in Convs
                                         THEN convs[c].form_snapshot ELSE 0,
                            ntasks |-> Len(tasks),
                            index |-> index]]
    /\ UNCHANGED <<tasks, forms, convs, users, ext, clock, faults, pc, batch,
                   gs, existing, cycPending, cycLog, applied, http, index, icall, upd>>

\* route_after_llm
route_after_llm(state) == IF state.error # Null THEN "error" ELSE "success"

\* a graph whose llm_inference node has the single edge to a2a_sender
AfterLlm_Always(state) == [state EXCEPT !.node = "a2a_sender"]

\* where the graph goes after llm_inference
AfterLlm(state) ==
    [state EXCEPT !.node = IF route_after_llm(state) = "error" THEN "end"
                           ELSE "a2a_sender"]

\* steps 1 and 2 of llm_inference_node: the first generation call, and the
\* repair call when the first text does not extract
Generation_Retry(state, o1, o2) ==
    IF o1.raised \/ Falsy(o1.text) \/ extract_json(o1.text) = 0
    THEN IF o2.raised \/ extract_json(o2.text) = 0
         THEN [state EXCEPT !.error = "invalid_json", !.raw_output = o1.text,
                            !.log = <<o1, o2>>]
         ELSE [state EXCEPT !.parsed = extract_json(o2.text), !.log = <<o1, o2>>]
    ELSE [state EXCEPT !.parsed = extract_json(o1.text), !.log = <<o1>>]

Generation(state, o1, o2) ==
    IF o1.raised
    THEN [state EXCEPT !.error = "llm_failure", !.log = <<o1>>]
    ELSE IF Falsy(o1.text)
    THEN [state EXCEPT !.error = "empty_llm_response", !.log = <<o1>>]
    ELSE IF extract_json(o1.text) # 0
    THEN [state EXCEPT !.parsed = extract_json(o1.text), !.log = <<o1>>]
    ELSE IF o2.raised \/ extract_json(o2.text) = 0
    THEN [state EXCEPT !.error = "invalid_json", !.raw_output = o1.text,
                       !.log = <<o1, o2>>]
    ELSE [state EXCEPT !.parsed = extract_json(o2.text), !.log = <<o1, o2>>]

\* steps 4 and 5 with the failures returned as the turn's error
IndexAfter_Strict(idx, c, e, qok, parsed) ==
    IF e.raised \/ e.vector.len # vector_size \/ ~qok
    THEN [error |-> "embedding_error", note |-> "embedding_error",
          index |-> idx]
    ELSE [error |-> Null, note |-> "stored",
          index |-> store_embedding(idx, c, e.vector, parsed, qok).index]

\* steps 4 and 5 of llm_inference_node: the index after the embedding call
\* and the upsert; every failure is logged and swallowed.  note says which
\* branch was taken.
IndexAfter(idx, c, e, qok, parsed) ==
    IF e.raised
    THEN [error |-> Null, note |-> "embedding_error", index |-> idx]
    ELSE IF e.vector.len = 0
    THEN [error |-> Null, note |-> "no_embedding", index |-> idx]
    ELSE IF e.vector.len # vector_size
    THEN [error |-> Null, note |-> "dimension_mismatch", index |-> idx]
    ELSE IF store_embedding(idx, c, e.vector, parsed, qok).raised
    THEN [error |-> Null, note |-> "index_error", index |-> idx]
    ELSE [error |-> Null, note |-> "stored",
          index |-> store_embedding(idx, c, e.vector, parsed, qok).index]

\* llm_inference_node, then route_after_llm
llm_inference_node ==
    /\ ps.node = "llm_inference"
    /\ clock' = clock + 1
    /\ \E o1 \in GenerateOutcomes(clock, 1), o2 \in GenerateOutcomes(clock, 2),
          e \in EmbedOutcomes(clock), qok \in BOOLEAN, dbok \in BOOLEAN :
          LET g == Generation(ps, o1, o2)
              c == ps.conversation_id
              ix == IndexAfter(index, c, e, qok, g.parsed)
          IN IF g.error # Null
             THEN /\ ps' = AfterLlm(g)
                  /\ UNCHANGED <<convs, index, faults>>
             ELSE IF c \notin Convs
             THEN /\ ps' = AfterLlm([g EXCEPT
                                       !.error = "conversation_not_found"])
                  /\ UNCHANGED <<convs, index, faults>>
             ELSE IF ~dbok
             THEN /\ faults < MaxFaults
                  /\ faults' = faults + 1
                  /\ ps' = AfterLlm([g EXCEPT !.error = "db_error"])
                  /\ UNCHANGED <<convs, index>>
             ELSE /\ convs' = [convs EXCEPT ![c].form_snapshot = g.parsed]
                  /\ index' = ix.index
                  /\ ps' = AfterLlm([g EXCEPT !.llm_output = g.parsed,
                                               !.error = ix.error,
                                               !.indexing = ix.note])
                  /\ UNCHANGED faults
    /\ UNCHANGED <<tasks, forms, users, ext, pc, batch, gs, existing,
                   cycPending, cycLog, applied, http, turns, icall, upd>>

\* an a2a_sender that sends the snapshot the turn started from
a2a_sender_Stale ==
    /\ ps.node = "a2a_sender"
    /\ tasks' = Append(tasks,
                  AgentTask(ps.conversation_id, "execute_form", "planner",
                            "executor",
                            [EmptyPayload EXCEPT
                               !.snapshot = ps.before.snapshot],
                            clock, 0))
    /\ clock' = clock + 1
    /\ ps' = [ps EXCEPT !.node = "end"]
    /\ UNCHANGED <<forms, convs, users, ext, pc, batch, gs, existing,
                   cycPending, cycLog, applied, http, index, turns, faults, icall,
                   upd>>

\* the a2a_sender node of the planner graph: one execute_form task whose
\* payload is llm_output
a2a_sender ==
    /\ ps.node = "a2a_sender"
    /\ IF ps.llm_output = 0
       THEN /\ ps' = [ps EXCEPT !.node = "end",
                                !.error = "a2a_sender_missing_llm_output"]
            /\ UNCHANGED <<tasks, clock, faults>>
       ELSE \/ /\ tasks' = Append(tasks,
                             AgentTask(ps.conversation_id, "execute_form",
                                       "planner", "executor",
                                       [EmptyPayload EXCEPT
                                          !.snapshot = ps.llm_output],
                                       clock, 0))
               /\ clock' = clock + 1
               /\ ps' = [ps EXCEPT !.node = "end"]
               /\ UNCHANGED faults
            \/ /\ faults < MaxFaults
               /\ faults' = faults + 1
               /\ ps' = [ps EXCEPT !.node = "end",
                                   !.error = "a2a_sender_db_error"]
               /\ UNCHANGED <<tasks, clock>>
    /\ UNCHANGED <<forms, convs, users, ext, pc, batch, gs, existing,
                   cycPending, cycLog, applied, http, index, turns, icall, upd>>

\* store_embedding called on its own, with any vector and payload
StoreEmbeddingCall(c, vector, payload, qok) ==
    /\ LET r == store_embedding(index, c, vector, payload, qok)
       IN /\ index' = r.index
          /\ icall' = [made |-> TRUE, conversation_id |-> c,
                       vector |-> vector, payload |-> payload,
                       raised |-> r.raised, error |-> r.error,
                       before |-> index]
    /\ UNCHANGED <<tasks, forms, convs, users, ext, clock, faults, pc, batch,
                   gs, existing, cycPending, cycLog, applied, http, ps, turns, upd>>

Planner ==
    \/ \E c \in Convs \cup {NoConv} : intent_parser_node(c)
    \/ llm_inference_node
    \/ a2a_sender

\* ------------------------------------------------- update_google_form
\* the fields of a snapshot and the items of an external form
FieldTypes == {"text", "dropdown", "file"}
Labels == {1, 2}
Titles == {1, 2}

SeqsUpTo(S, n) == UNION {[1..k -> S] : k \in 0..n}

Fields == [type : FieldTypes, label : Labels, required : {FALSE}]

\* the question type convert_field_to_question gives a field type
QuestionKind(type) ==
    CASE type = "paragraph" -> "textQuestion_paragraph"
      [] type = "dropdown" -> "DROP_DOWN"
      [] type = "checkbox" -> "CHECKBOX"
      [] type = "radio" -> "RADIO"
      [] type = "date" -> "dateQuestion"
      [] type = "time" -> "timeQuestion"
      [] OTHER -> "textQuestion"

Item(field) ==
    [title |-> field.label, required |-> field.required,
     question |-> QuestionKind(field.type)]

NoRequest == [op |-> "none", item |-> Item([type |-> "text", label |-> 0,
                                            required |-> FALSE]),
              index |-> 0]

\* convert_field_to_question: None for a file field, else a createItem
\* request at the given index
convert_field_to_question(field, at) ==
    IF field.type = "file"
    THEN NoRequest
    ELSE [op |-> "createItem", item |-> Item(field), index |-> at]

\* the loop of step 4: field number i (from 1) of the snapshot, nskipped
\* fields skipped so far
RECURSIVE CreateRequests(_, _, _)
CreateRequests(fields, i, nskipped) ==
    IF i > Len(fields)
    THEN <<>>
    ELSE LET question ==
                 convert_field_to_question(fields[i], (i - 1) - nskipped)
         IN IF question = NoRequest
            THEN CreateRequests(fields, i + 1, nskipped + 1)
            ELSE <<question>> \o CreateRequests(fields, i + 1, nskipped)

\* the loop of step 2: one deleteItem at index 0 per existing item
DeleteRequests(existing_items) ==
    [k \in 1..Len(existing_items) |->
        [op |-> "deleteItem", item |-> NoRequest.item, index |-> 0]]

\* forms.batchUpdate: the requests applied in order to the item list; a
\* request with an index out of range rejects the batch
RECURSIVE ApplyRequests(_, _)
ApplyRequests(items, reqs) ==
    IF reqs = <<>>
    THEN [ok |-> TRUE, items |-> items]
    ELSE LET r == Head(reqs)
             n == r.index
         IN IF r.op = "deleteItem"
            THEN IF n + 1 > Len(items)
                 THEN [ok |-> FALSE, items |-> items]
                 ELSE ApplyRequests(SubSeq(items, 1, n)
                                      \o SubSeq(items, n + 2, Len(items)),
                                    Tail(reqs))
            ELSE IF n > Len(items)
                 THEN [ok |-> FALSE, items |-> items]
                 ELSE ApplyRequests(SubSeq(items, 1, n) \o <<r.item>>
                                      \o SubSeq(items, n + 1, Len(items)),
                                    Tail(reqs))

\* an exception leaves update_google_form
U_Raise == [upd EXCEPT !.step = "done", !.result = "raised"]

\* step 1: forms.get; its exception is raised again
U_Get ==
    /\ upd.step = "get"
    /\ \/ /\ upd' = [upd EXCEPT !.step = "delete",
                                !.existing_items = upd.items]
          /\ UNCHANGED faults
       \/ /\ faults < MaxFaults
          /\ faults' = faults + 1
          /\ upd' = U_Raise
    /\ UNCHANGED <<tasks, forms, convs, users, ext, clock, pc, batch, gs,
                   existing, cycPending, cycLog, applied, http, ps, index, turns, icall>>

\* step 2: the deletions in one batchUpdate; its exception is logged and
\* the function goes on
U_Delete ==
    /\ upd.step = "delete"
    /\ IF upd.existing_items = <<>>
       THEN /\ upd' = [upd EXCEPT !.step = "info"]
            /\ UNCHANGED faults
       ELSE LET r == ApplyRequests(upd.items,
                                   DeleteRequests(upd.existing_items))
            IN \/ /\ upd' = [upd EXCEPT !.step = "info", !.items = r.items]
                  /\ UNCHANGED faults
               \/ /\ faults < MaxFaults
                  /\ faults' = faults + 1
                  /\ upd' = [upd EXCEPT !.step = "info"]
    /\ UNCHANGED <<tasks, forms, convs, users, ext, clock, pc, batch, gs,
                   existing, cycPending, cycLog, applied, http, ps, index, turns, icall>>

\* the updateFormInfo requests of step 3: the title when it differs from the
\* current one; the description when it is non-empty (truthy) and differs
InfoRequests(u) ==
    (IF u.new_title # u.title THEN {"title"} ELSE {})
        \cup (IF u.new_description # NoDescription
                   /\ u.new_description # u.description
               THEN {"description"} ELSE {})

\* step 3: title and description, only when changed, in one batchUpdate
U_Info ==
    /\ upd.step = "info"
    /\ LET info_requests == InfoRequests(upd) IN
       IF info_requests = {}
       THEN /\ upd' = [upd EXCEPT !.step = "create"]
            /\ UNCHANGED faults
       ELSE \/ /\ upd' = [upd EXCEPT
                             !.step = "create",
                             !.info_requests = info_requests,
                             !.title = IF "title" \in info_requests
                                       THEN upd.new_title ELSE @,
                             !.description =
                                 IF "description" \in info_requests
                                 THEN upd.new_description ELSE @]
               /\ UNCHANGED faults
            \/ /\ faults < MaxFaults
               /\ faults' = faults + 1
               /\ upd' = [U_Raise EXCEPT !.info_requests = info_requests]
    /\ UNCHANGED <<tasks, forms, convs, users, ext, clock, pc, batch, gs,
                   existing, cycPending, cycLog, applied, http, ps, index, turns, icall>>

\* step 4: the createItem requests of the snapshot's fields in one batch
U_Create ==
    /\ upd.step = "create"
    /\ LET requests == CreateRequests(upd.fields, 1, 0)
           r == ApplyRequests(upd.items, requests)
       IN IF requests = <<>>
          THEN /\ upd' = [upd EXCEPT !.step = "final"]
               /\ UNCHANGED faults
          ELSE \/ /\ r.ok
                  /\ upd' = [upd EXCEPT !.step = "final", !.items = r.items]
                  /\ UNCHANGED faults
               \/ /\ ~r.ok
                  /\ upd' = U_Raise
                  /\ UNCHANGED faults
               \/ /\ faults < MaxFaults
                  /\ faults' = faults + 1
                  /\ upd' = U_Raise
    /\ UNCHANGED <<tasks, forms, convs, users, ext, clock, pc, batch, gs,
                   existing, cycPending, cycLog, applied, http, ps, index, turns, icall>>

\* step 5: the final forms.get, then return form_id, form_url
U_Final ==
    /\ upd.step = "final"
    /\ \/ /\ upd' = [upd EXCEPT !.step = "done", !.result = "success"]
          /\ UNCHANGED faults
       \/ /\ faults < MaxFaults
          /\ faults' = faults + 1
          /\ upd' = U_Raise
    /\ UNCHANGED <<tasks, forms, convs, users, ext, clock, pc, batch, gs,
                   existing, cycPending, cycLog, applied, http, ps, index, turns, icall>>

update_google_form == U_Get \/ U_Delete \/ U_Info \/ U_Create \/ U_Final

\* ------------------------------------------------------ field conversion
\* the three converters from snapshot fields to question operations:
\* convert_field_to_question of core/google_forms.py (create_google_form and
\* update_google_form), convert_fields_to_questions of execute_forms_mcp.py
\* (the graph's materialization node) and _convert_field_to_question of
\* convert_to_google_forms_node.py

\* every variable but applied
others == <<tasks, forms, convs, users, ext, clock, faults, pc, batch, gs,
            existing, cycPending, cycLog, ps, index, turns, icall, upd, http>>

\* a key that a dict does not hold
Absent == -1

\* dict.get(key, default)
Get(v, default) == IF v = Absent THEN default ELSE v

\* field types: five of the schema's enum and one outside it
ConvTypes == {"text", "number", "dropdown", "file", "rating", "signature"}

\* the validation dict of a field: missing, {min, max}, or {max} alone
Validations ==
    {[min |-> Absent, max |-> Absent], [min |-> 0, max |-> 10],
     [min |-> Absent, max |-> 10]}

ConvFields ==
    {f \in [type : ConvTypes, label : Labels, required : {FALSE},
            validation : Validations] :
        f.type \notin {"rating", "number"}
            => f.validation = [min |-> Absent, max |-> Absent]}

\* the loop of create_google_form (step 3) and update_google_form (step 4):
\* the labels of the fields convert_field_to_question returned None for
RECURSIVE SkippedFields(_, _)
SkippedFields(fields, i) ==
    IF i > Len(fields)
    THEN <<>>
    ELSE IF convert_field_to_question(fields[i], 0) = NoRequest
         THEN <<fields[i].label>> \o SkippedFields(fields, i + 1)
         ELSE SkippedFields(fields, i + 1)

\* a question dict without a "type" key
NoType == "no type"

\* convert_fields_to_questions: one question dict per field, whatever its
\* type; a type outside the chain leaves the dict without a "type" key
McpQuestion(field) ==
    LET base == [title |-> field.label, required |-> field.required,
                 type |-> NoType, min |-> Absent, max |-> Absent]
        t == field.type
    IN CASE t = "text" -> [base EXCEPT !.type = "SHORT_ANSWER"]
         [] t = "paragraph" -> [base EXCEPT !.type = "PARAGRAPH"]
         [] t \in {"email", "phone"} -> [base EXCEPT !.type = "SHORT_ANSWER"]
         [] t = "number" ->
                [base EXCEPT !.type = "SHORT_ANSWER",
                             !.min = field.validation.min,
                             !.max = field.validation.max]
         [] t = "dropdown" -> [base EXCEPT !.type = "DROPDOWN"]
         [] t = "checkbox" -> [base EXCEPT !.type = "CHECKBOX"]
         [] t = "radio" -> [base EXCEPT !.type = "MULTIPLE_CHOICE"]
         [] t = "date" -> [base EXCEPT !.type = "DATE"]
         [] t = "time" -> [base EXCEPT !.type = "TIME"]
         [] t = "file" -> [base EXCEPT !.type = "FILE_UPLOAD"]
         [] t = "rating" ->
                [base EXCEPT !.type = "SCALE",
                             !.min = Get(field.validation.min, 1),
                             !.max = Get(field.validation.max, 5)]
         [] OTHER -> base

convert_fields_to_questions(fields) ==
    [k \in 1..Len(fields) |-> McpQuestion(fields[k])]

\* _convert_field_to_question of convert_to_google_forms_node.py: a
\* createItem request for every field, at the field's own index
NodeQuestion(field, at) ==
    LET base == [op |-> "createItem", title |-> field.label,
                 required |-> field.required, index |-> at,
                 question |-> "textQuestion", low |-> Absent, high |-> Absent]
        t == field.type
    IN CASE t = "paragraph" ->
                [base EXCEPT !.question = "textQuestion_paragraph"]
         [] t = "dropdown" -> [base EXCEPT !.question = "DROP_DOWN"]
         [] t = "checkbox" -> [base EXCEPT !.question = "CHECKBOX"]
         [] t = "radio" -> [base EXCEPT !.question = "RADIO"]
         [] t = "date" -> [base EXCEPT !.question = "dateQuestion"]
         [] t = "time" -> [base EXCEPT !.question = "timeQuestion"]
         [] t = "file" -> [base EXCEPT !.question = "fileUploadQuestion"]
         [] t = "rating" ->
                [base EXCEPT !.question = "scaleQuestion",
                             !.low = Get(field.validation.min, 1),
                             !.high = Get(field.validation.max, 5)]
         [] OTHER -> base

convert_to_google_forms_node(fields) ==
    [k \in 1..Len(fields) |-> NodeQuestion(fields[k], k - 1)]

\* one converter applied to the fields of a snapshot
ApplyCore ==
    /\ applied.fn = "none"
    /\ applied' = [applied EXCEPT
                     !.fn = "convert_field_to_question",
                     !.output = [requests |->
                                     CreateRequests(applied.input, 1, 0),
                                 skipped_fields |->
                                     SkippedFields(applied.input, 1)]]
    /\ UNCHANGED others

ApplyMcp ==
    /\ applied.fn = "none"
    /\ applied' = [applied EXCEPT
                     !.fn = "convert_fields_to_questions",
                     !.output = [requests |->
                                     convert_fields_to_questions(
                                         applied.input),
                                 skipped_fields |-> <<>>]]
    /\ UNCHANGED others

ApplyNode ==
    /\ applied.fn = "none"
    /\ applied' = [applied EXCEPT
                     !.fn = "convert_to_google_forms_node",
                     !.output = [requests |->
                                     convert_to_google_forms_node(
                                         applied.input),
                                 skipped_fields |-> <<>>]]
    /\ UNCHANGED others

\* -------------------------------------------------- conversation routes
\* create_conversation and continue_conversation of routes/conversation.py
\* around one planner turn.  A conversation row that does not exist yet has
\* status "absent"; code is the HTTP status of the answer.

\* every variable the route steps leave alone
rvars == <<tasks, forms, users, ext, clock, faults, pc, batch, gs, existing,
           cycPending, cycLog, ps, index, turns, icall, upd, applied>>

\* create_conversation, step 1: the row is inserted with status active and
\* version 0, then the planner is invoked
create_conversation(c) ==
    /\ http.step \in {"none", "returned"}
    /\ turns < MaxTurns
    /\ convs[c].status = "absent"
    /\ \A d \in Convs : d < c => convs[d].status # "absent"
    /\ convs' = [convs EXCEPT ![c].status = "active",
                              ![c].current_version = 0]
    /\ http' = [NoHttp EXCEPT
                  !.route = "create", !.step = "invoked",
                  !.conversation_id = c, !.turn = turns,
                  !.before = [status |-> "active", current_version |-> 0]]
    /\ UNCHANGED rvars

\* continue_conversation, steps 1 to 3: 404 for a conversation that is not
\* there, 400 for one that is not active, else the planner is invoked
continue_conversation(c) ==
    /\ http.step \in {"none", "returned"}
    /\ LET call == [NoHttp EXCEPT
                      !.route = "continue", !.conversation_id = c,
                      !.turn = turns,
                      !.before = [status |-> convs[c].status,
                                  current_version |->
                                      convs[c].current_version]]
       IN IF convs[c].status = "absent"
          THEN http' = [call EXCEPT !.step = "returned", !.code = 404]
          ELSE IF convs[c].status # "active"
          THEN http' = [call EXCEPT !.step = "returned", !.code = 400]
          ELSE /\ turns < MaxTurns
               /\ http' = [call EXCEPT !.step = "invoked"]
    /\ UNCHANGED convs
    /\ UNCHANGED rvars

\* planner_graph.ainvoke of the route in progress
route_ainvoke ==
    /\ http.step = "invoked"
    /\ \/ turns = http.turn /\ intent_parser_node(http.conversation_id)
       \/ turns > http.turn /\ llm_inference_node
       \/ turns > http.turn /\ a2a_sender

\* continue_conversation, steps 5 to 10: HTTP 500 on a planner error, else
\* the version is bumped and committed
continue_conversation_return ==
    /\ http.route = "continue" /\ http.step = "invoked"
    /\ turns > http.turn /\ ps.node = "end"
    /\ LET c == http.conversation_id IN
       IF ps.error # Null
       THEN /\ http' = [http EXCEPT !.step = "returned", !.code = 500,
                                    !.error = ps.error]
            /\ UNCHANGED convs
       ELSE /\ convs' = [convs EXCEPT
                           ![c].current_version =
                               convs[c].current_version + 1]
            /\ http' = [http EXCEPT !.step = "returned", !.code = 200]
    /\ UNCHANGED rvars

\* create_conversation after the planner: on an error the conversation is
\* marked failed and HTTP 500 raised, else 201 with the row as it is
create_conversation_return ==
    /\ http.route = "create" /\ http.step = "invoked"
    /\ turns > http.turn /\ ps.node = "end"
    /\ LET c == http.conversation_id IN
       IF ps.error # Null
       THEN /\ convs' = [convs EXCEPT ![c].status = "failed"]
            /\ http' = [http EXCEPT !.step = "returned", !.code = 500,
                                    !.error = ps.error]
       ELSE /\ http' = [http EXCEPT !.step = "returned", !.code = 201]
            /\ UNCHANGED convs
    /\ UNCHANGED rvars

\* ------------------------------------------------------- pipeline entry
\* ExecutorAgent.process and PlannerAgent.process around graph.ainvoke

\* str(e) of an exception that escapes graph.ainvoke
Messages == {"timeout", "connection refused"}

\* what graph.ainvoke gives ExecutorAgent.process: an exception, or the
\* final ExecutorState
ExecutorOutcomes ==
    {[raised |-> TRUE, message |-> m, status |-> Null, error |-> Null,
      details |-> Null, form_id |-> 0] : m \in Messages}
    \cup [raised : {FALSE}, message : {Null},
          status : {"completed", "failed", "processing"},
          error : {Null, "task_not_found", "missing_credentials",
                   "mcp_execution_error"},
          details : {Null, "boom"}, form_id : {0, 1}]

\* what graph.ainvoke gives PlannerAgent.process: an exception, or the final
\* state, which holds the keys is_complete, confidence, ... only if the
\* graph carried them through
PlannerOutcomes ==
    {[raised |-> TRUE, message |-> m, error |-> Null, has_outputs |-> FALSE,
      snapshot |-> 0] : m \in Messages}
    \cup [raised : {FALSE}, message : {Null},
          error : {Null, "invalid_json", "db_error", "conversation_not_found",
                   "a2a_sender_db_error"},
          has_outputs : BOOLEAN, snapshot : {0, 1}]

\* the result dict of a process call; raised: the call raised instead
NoProcessResult ==
    [raised |-> FALSE, success |-> FALSE, error |-> Null, details |-> Null,
     form_id |-> 0, snapshot |-> 0]

\* ExecutorAgent.process
ExecutorAgent_process(o) ==
    IF o.raised
    THEN [NoProcessResult EXCEPT !.error = "executor_exception",
                                 !.details = o.message]
    ELSE [NoProcessResult EXCEPT !.success = (o.status = "completed"),
                                 !.form_id = o.form_id,
                                 !.error = o.error,
                                 !.details = o.details]

\* PlannerAgent.process: final_state["is_complete"] is a KeyError when the
\* key is not there, and the except clause returns str(e) as the error
PlannerAgent_process(o) ==
    IF o.raised
    THEN [NoProcessResult EXCEPT !.error = o.message]
    ELSE IF ~o.has_outputs
    THEN [NoProcessResult EXCEPT !.error = "'is_complete'"]
    ELSE [NoProcessResult EXCEPT !.success = TRUE,
                                 !.snapshot = o.snapshot,
                                 !.error = o.error]

ProcessExecutor ==
    /\ applied.fn = "none" /\ applied.input.agent = "executor"
    /\ applied' = [applied EXCEPT
                     !.fn = "ExecutorAgent.process",
                     !.output = ExecutorAgent_process(applied.input.outcome)]
    /\ UNCHANGED others

ProcessPlanner ==
    /\ applied.fn = "none" /\ applied.input.agent = "planner"
    /\ applied' = [applied EXCEPT
                     !.fn = "PlannerAgent.process",
                     !.output = PlannerAgent_process(applied.input.outcome)]
    /\ UNCHANGED others

\* ------------------------------------------------- extract_json on texts
\* extract_json of llm_inference.py on token sequences.  A text is a
\* sequence of tokens: the fence markers with and without the word json
\* ("fence_json", "fence"), the line break
\* "nl", a word "x", and the JSON tokens { } [ ] q (a double quote), k (a key
\* with its colon) and 1 (a number).  A parsed value is its own token
\* sequence without the white space.

Fences == {"fence_json", "fence"}

\* what a JSON string may hold between its quotes
StringChars == {"x", "fence"}

Strings ==
    {<<"q">> \o body \o <<"q">> : body \in SeqsUpTo(StringChars, MaxChars)}

\* objects without and with a member, the member a string or an object
Objects ==
    {<<"{", "}">>, <<"{", "k", "{", "}", "}">>}
        \cup {<<"{", "k">> \o str \o <<"}">> : str \in Strings}

\* texts that are JSON but no object, and texts that are no JSON
Bodies ==
    Objects
        \cup {<<"[", "]">>, <<"[", "{", "}", "]">>, <<"1">>, <<"q", "x", "q">>}
        \cup {<<>>, <<"x">>, <<"{">>, <<"{", "x", "}">>}

Wrappings ==
    {"bare", "fenced_json", "fenced", "explained", "padded", "fence_inside"}

Wrap(w, body) ==
    CASE w = "fenced_json" -> <<"fence_json", "nl">> \o body \o <<"nl", "fence">>
      [] w = "fenced" -> <<"fence", "nl">> \o body \o <<"nl", "fence">>
      [] w = "explained" -> <<"x", "nl">> \o body \o <<"nl", "x">>
      [] w = "padded" -> <<"nl">> \o body \o <<"nl">>
      [] w = "fence_inside" ->
             <<"x", "nl", "fence_json", "nl">> \o body \o <<"nl", "fence">>
      [] OTHER -> body

\* str.strip()
RECURSIVE Strip(_)
Strip(t) ==
    IF t = <<>> THEN t
    ELSE IF Head(t) = "nl" THEN Strip(Tail(t))
    ELSE IF t[Len(t)] = "nl" THEN Strip(SubSeq(t, 1, Len(t) - 1))
    ELSE t

\* re.sub of the two fence markers by nothing: every fence marker goes, wherever it is
RemoveFences(t) == LET Test(x) == x \notin Fences IN SelectSeq(t, Test)

\* the white space json.loads skips: line breaks outside strings; ok is
\* false for a line break inside a string
RECURSIVE Squeeze(_, _)
Squeeze(t, in_string) ==
    IF t = <<>> THEN [ok |-> TRUE, tokens |-> <<>>]
    ELSE LET x == Head(t)
             rest == Squeeze(Tail(t), IF x = "q" THEN ~in_string
                                      ELSE in_string)
         IN IF x = "nl"
            THEN IF in_string THEN [ok |-> FALSE, tokens |-> <<>>]
                 ELSE rest
            ELSE [ok |-> rest.ok, tokens |-> <<x>> \o rest.tokens]

\* the JSON grammar of the tokens
RECURSIVE IsValue(_)
IsValue(t) ==
    LET n == Len(t)
        inner == SubSeq(t, 2, n - 1)
    IN \/ t = <<"1">>
       \/ /\ n >= 2 /\ t[1] = "q" /\ t[n] = "q"
          /\ \A i \in 2..(n - 1) : t[i] \in StringChars \cup Fences
       \/ /\ n >= 2 /\ t[1] = "[" /\ t[n] = "]"
          /\ inner = <<>> \/ IsValue(inner)
       \/ /\ n >= 2 /\ t[1] = "{" /\ t[n] = "}"
          /\ \/ inner = <<>>
             \/ Len(inner) >= 2 /\ inner[1] = "k" /\ IsValue(Tail(inner))

\* json.loads: the value, or JSONDecodeError
loads(t) ==
    LET u == Squeeze(t, FALSE)
    IN IF u.ok /\ IsValue(u.tokens)
       THEN [error |-> Null, value |-> u.tokens]
       ELSE [error |-> "JSONDecodeError", value |-> <<>>]

\* isinstance(parsed, dict)
IsDict(v) == v # <<>> /\ Head(v) = "{"

\* re.search(r"\{.*\}", text, re.DOTALL).group(): from the first { to the
\* last }, <<>> for no match
FirstBlock(t) ==
    LET opens == {i \in 1..Len(t) : t[i] = "{"}
        closes == {i \in 1..Len(t) : t[i] = "}"}
    IN IF opens = {} \/ closes = {} THEN <<>>
       ELSE LET a == CHOOSE i \in opens : \A j \in opens : i <= j
                b == CHOOSE i \in closes : \A j \in closes : j <= i
            IN IF a < b THEN SubSeq(t, a, b) ELSE <<>>

\* extract_json: the dict it returns, or the exception it raises
ExtractJson(raw) ==
    IF raw = <<>>
    THEN [raised |-> TRUE, value |-> <<>>]
    ELSE LET stripped == Strip(raw)
             text == IF stripped # <<>> /\ Head(stripped) \in Fences
                     THEN Strip(RemoveFences(stripped))
                     ELSE stripped
             direct == loads(text)
             block == FirstBlock(text)
             found == loads(block)
         IN IF direct.error = Null
            THEN IF IsDict(direct.value)
                 THEN [raised |-> FALSE, value |-> direct.value]
                 ELSE [raised |-> TRUE, value |-> <<>>]
            ELSE IF block # <<>>
            THEN IF found.error = Null /\ IsDict(found.value)
                 THEN [raised |-> FALSE, value |-> found.value]
                 ELSE [raised |-> TRUE, value |-> <<>>]
            ELSE [raised |-> TRUE, value |-> <<>>]

\* extract_json applied to a body in a wrapping
ApplyExtract ==
    /\ applied.fn = "none"
    /\ applied' = [applied EXCEPT
                     !.fn = "extract_json",
                     !.output = ExtractJson(Wrap(applied.input.wrapping,
                                                 applied.input.body))]
    /\ UNCHANGED others

\* ------------------------------------ the snapshot a continuation starts from
\* QdrantClient.get_by_conversation: the snapshot of the point whose id is the
\* conversation id; None when there is no such point or the lookup raises
get_by_conversation(idx, c, qok) ==
    IF qok /\ \E q \in idx : q.id = c
    THEN (CHOOSE q \in idx : q.id = c).payload.form_snapshot
    ELSE 0

\* continue_conversation, step 3: the index first, the stored row when the
\* index gave nothing
ContinuationSnapshot(c, qok) ==
    IF get_by_conversation(index, c, qok) # 0
    THEN get_by_conversation(index, c, qok)
    ELSE convs[c].form_snapshot

\* ------------------------------------------- retrieval in intent_parser
\* intent_parser_node with its two external calls.  A snapshot is None, the
\* empty dict (not None, but falsy) or a schema; a similarity score is in
\* tenths.
NoSnapshot == 0
EmptySnapshot == -2
ExistingSnapshots == {NoSnapshot, EmptySnapshot, 1}
Prompts == {1, 2}
Documents == {0, 1}
ScoreValues == {4, 6, 9}

\* `if existing_snapshot:`
Truthy(snapshot) == snapshot \notin {NoSnapshot, EmptySnapshot}

\* the search of the index: the stored points whose score reaches the
\* threshold, best first, at most limit of them
RECURSIVE TopHits(_, _, _)
TopHits(scores, S, n) ==
    IF S = {} \/ n = 0
    THEN <<>>
    ELSE LET best == CHOOSE i \in S :
                         \A j \in S : \/ scores[i] > scores[j]
                                      \/ scores[i] = scores[j] /\ i <= j
         IN <<best>> \o TopHits(scores, S \ {best}, n - 1)

query_points(scores, limit, score_threshold) ==
    TopHits(scores, {i \in DOMAIN scores : scores[i] >= score_threshold},
            limit)

\* QdrantClient.retrieve_similar: the payloads and scores of the hits; an
\* exception of the search is logged and an empty list returned
retrieve_similar(scores, limit, score_threshold, qok) ==
    IF ~qok
    THEN <<>>
    ELSE LET hits == query_points(scores, limit, score_threshold)
         IN [k \in 1..Len(hits) |->
                [conversation_id |-> hits[k], form_snapshot |-> hits[k],
                 score |-> scores[hits[k]]]]

EmbedCall == [fn |-> "embed", limit |-> 0, score_threshold |-> 0]
RetrieveCall(limit, score_threshold) ==
    [fn |-> "retrieve_similar", limit |-> limit,
     score_threshold |-> score_threshold]

\* the prompt intent_parser_node returns as llm_input
FullPrompt(state, examples) ==
    [task |-> IF Truthy(state.form_snapshot) THEN "update" ELSE "create",
     user_prompt |-> state.user_prompt,
     existing |-> IF Truthy(state.form_snapshot) THEN state.form_snapshot
                  ELSE NoSnapshot,
     documents |-> state.documents,
     examples |-> examples]

\* an intent parser that retrieves examples whatever the snapshot is
IntentParser_Always(state, scores, embed_ok, qok) ==
    IF ~embed_ok
    THEN [llm_input |-> FullPrompt(state, <<>>), calls |-> <<EmbedCall>>,
          embed_raised |-> TRUE, search_raised |-> FALSE]
    ELSE [llm_input |->
              FullPrompt(state, retrieve_similar(scores, 3, 5, qok)),
          calls |-> <<EmbedCall, RetrieveCall(3, 5)>>,
          embed_raised |-> FALSE, search_raised |-> ~qok]

\* intent_parser_node: retrieval only when existing_snapshot is None, every
\* exception of it caught; then the prompt is built
IntentParser(state, scores, embed_ok, qok) ==
    IF state.form_snapshot # NoSnapshot
    THEN [llm_input |-> FullPrompt(state, <<>>), calls |-> <<>>,
          embed_raised |-> FALSE, search_raised |-> FALSE]
    ELSE IF ~embed_ok
    THEN [llm_input |-> FullPrompt(state, <<>>), calls |-> <<EmbedCall>>,
          embed_raised |-> TRUE, search_raised |-> FALSE]
    ELSE [llm_input |->
              FullPrompt(state, retrieve_similar(scores, 3, 5, qok)),
          calls |-> <<EmbedCall, RetrieveCall(3, 5)>>,
          embed_raised |-> FALSE, search_raised |-> ~qok]

ApplyIntent ==
    /\ applied.fn = "none"
    /\ \E embed_ok \in BOOLEAN, qok \in BOOLEAN :
           applied' = [applied EXCEPT
                         !.fn = "intent_parser_node",
                         !.output = IntentParser(applied.input.state,
                                                 applied.input.scores,
                                                 embed_ok, qok)]
    /\ UNCHANGED others

\* ------------------------------------------------------ specifications
\* one worker process, the planner handing tasks over at any time
Next ==
    \/ \E c \in Convs : a2a_sender_node(c)
    \/ Worker("w1")

Spec == Init /\ [][Next]_vars

\* two replicas of the worker process on the same task table
NextRace ==
    \/ \E c \in Convs : a2a_sender_node(c)
    \/ \E p \in Workers : Worker(p)

SpecRace == Init /\ [][NextRace]_vars

\* one worker process and the standalone run_executor loop on the same
\* tables, scheduled so that poll cycles never overlap: a poller moves only
\* while every other poller is between cycles
OthersIdle(p) == \A q \in Pollers \ {p} : pc[q] = "idle"

NextSeq ==
    \/ \E c \in Convs : a2a_sender_node(c)
    \/ OthersIdle("w1") /\ Worker("w1")
    \/ \E p \in Mains : OthersIdle(p) /\ Main(p)

SpecSeq == Init /\ [][NextSeq]_vars

\* planner turns one after the other, nobody polling
NextPlanner == Planner

SpecPlanner == Init /\ [][NextPlanner]_vars

\* the retrieval index under store_embedding calls with vectors of the right
\* and of a wrong length
NextIndex ==
    \E c \in Convs, len \in VectorLens, payload \in 1..NumPayloads,
       qok \in BOOLEAN :
        \* the content of a vector of a wrong length is never looked at
        \E content \in (IF len = vector_size THEN 1..NumVectors ELSE {1}) :
            StoreEmbeddingCall(c, Vector(len, content), payload, qok)

SpecIndex == Init /\ [][NextIndex]_vars

\* extract_task_node on its own: the run of a claimed task whose three reads
\* may find the task, its conversation or the user gone (rows deleted while
\* the task waited), the credentials missing or the payload empty
Dangling == NumConvs + 1

InitExtract ==
    \E cid \in Convs \cup {Dangling}, uid \in Users \cup {Dangling},
       acc \in BOOLEAN, ref \in BOOLEAN, tid \in {1, 2},
       payload \in {EmptyPayload, [EmptyPayload EXCEPT !.snapshot = 1]} :
        /\ tasks = <<[AgentTask(cid, "execute_form", "planner", "executor",
                                payload, 1, 0)
                         EXCEPT !.status = "processing",
                                !.started_at = TRUE,
                                !.claimed_by = {"w1"}]>>
        /\ forms = <<>>
        /\ convs = [c \in Convs |->
                      [user_id |-> uid, form_snapshot |-> 1,
                       executor_state |-> NoExecutorState,
                       status |-> "active", current_version |-> 0]]
        /\ users = [u \in Users |->
                      [google_access_token |-> acc,
                       google_refresh_token |-> ref]]
        /\ ext = <<>>
        /\ clock = 2
        /\ faults = 0
        /\ pc = [p \in Pollers |-> IF p = "w1" THEN "extract" ELSE "idle"]
        /\ batch = [p \in Pollers |-> IF p = "w1" THEN <<1>> ELSE <<>>]
        /\ gs = [p \in Pollers |->
                   IF p = "w1" THEN InitialState(tid) ELSE BlankState]
        /\ existing = [p \in Pollers |-> 0]
        /\ cycPending = [p \in Pollers |-> IF p = "w1" THEN {1} ELSE {}]
        /\ cycLog = [p \in Pollers |-> IF p = "w1" THEN <<1>> ELSE <<>>]
        /\ ps = IdlePlanner
        /\ index = {}
        /\ turns = 0
        /\ icall = NoCall
        /\ applied = NoApply
        /\ http = NoHttp
        /\ upd = NoUpdate

NextExtract == W_Extract("w1")

SpecExtract == InitExtract /\ [][NextExtract]_vars

\* update_google_form on its own: an external form with any items, a
\* snapshot with any fields, each external call succeeding or raising
InitUpdate ==
    /\ \E items \in SeqsUpTo({Item(f) : f \in {g \in Fields : g.type # "file"}},
                              MaxFields),
          fields \in SeqsUpTo(Fields, MaxFields),
          new_title \in Titles,
          description \in CurrentDescriptions,
          new_description \in Descriptions :
           upd = [NoUpdate EXCEPT !.step = "get", !.items = items,
                                  !.title = 1, !.fields = fields,
                                  !.new_title = new_title,
                                  !.before = items,
                                  !.description = description,
                                  !.new_description = new_description,
                                  !.before_info =
                                      [title |-> 1,
                                       description |-> description]]
    /\ tasks = <<>>
    /\ forms = <<>>
    /\ convs = [c \in Convs |->
                  [user_id |-> c, form_snapshot |-> 0,
                   executor_state |-> NoExecutorState,
                   status |-> "active", current_version |-> 0]]
    /\ users = [u \in Users |->
                  [google_access_token |-> TRUE,
                   google_refresh_token |-> TRUE]]
    /\ ext = <<>>
    /\ clock = 1
    /\ faults = 0
    /\ pc = [p \in Pollers |-> "idle"]
    /\ batch = [p \in Pollers |-> <<>>]
    /\ gs = [p \in Pollers |-> BlankState]
    /\ existing = [p \in Pollers |-> 0]
    /\ cycPending = [p \in Pollers |-> {}]
    /\ cycLog = [p \in Pollers |-> <<>>]
    /\ ps = IdlePlanner
    /\ index = {}
    /\ turns = 0
    /\ icall = NoCall
    /\ applied = NoApply
    /\ http = NoHttp

NextUpdate == update_google_form

SpecUpdate == InitUpdate /\ [][NextUpdate]_vars

\* the three field converters on every snapshot of up to MaxFields fields
QuietRest ==
    /\ tasks = <<>>
    /\ forms = <<>>
    /\ users = [u \in Users |->
                  [google_access_token |-> TRUE,
                   google_refresh_token |-> TRUE]]
    /\ ext = <<>>
    /\ clock = 1
    /\ faults = 0
    /\ pc = [p \in Pollers |-> "idle"]
    /\ batch = [p \in Pollers |-> <<>>]
    /\ gs = [p \in Pollers |-> BlankState]
    /\ existing = [p \in Pollers |-> 0]
    /\ cycPending = [p \in Pollers |-> {}]
    /\ cycLog = [p \in Pollers |-> <<>>]
    /\ ps = IdlePlanner
    /\ index = {}
    /\ turns = 0
    /\ icall = NoCall
    /\ upd = NoUpdate

Quiet ==
    /\ QuietRest
    /\ convs = [c \in Convs |->
                  [user_id |-> c, form_snapshot |-> 0,
                   executor_state |-> NoExecutorState,
                   status |-> "active", current_version |-> 0]]
    /\ http = NoHttp

InitConvert ==
    /\ Quiet
    /\ \E fields \in SeqsUpTo(ConvFields, MaxFields) :
           applied = [NoApply EXCEPT !.input = fields]

NextConvert == ApplyCore \/ ApplyMcp \/ ApplyNode

SpecConvert == InitConvert /\ [][NextConvert]_vars

\* the two conversation routes, one request at a time, each running its
\* planner turn to the end; no conversation exists at the start
InitRoutes ==
    /\ QuietRest
    /\ convs = [c \in Convs |->
                  [user_id |-> c, form_snapshot |-> 0,
                   executor_state |-> NoExecutorState,
                   status |-> "absent", current_version |-> 0]]
    /\ http = NoHttp
    /\ applied = NoApply

NextRoutes ==
    \/ \E c \in Convs : create_conversation(c)
    \/ \E c \in Convs : continue_conversation(c)
    \/ route_ainvoke
    \/ create_conversation_return
    \/ continue_conversation_return

SpecRoutes == InitRoutes /\ [][NextRoutes]_vars

\* the two process entries on every outcome of graph.ainvoke
InitProcess ==
    /\ Quiet
    /\ \/ \E o \in ExecutorOutcomes :
              applied = [NoApply EXCEPT
                           !.input = [agent |-> "executor", outcome |-> o]]
       \/ \E o \in PlannerOutcomes :
              applied = [NoApply EXCEPT
                           !.input = [agent |-> "planner", outcome |-> o]]

NextProcess == ProcessExecutor \/ ProcessPlanner

SpecProcess == InitProcess /\ [][NextProcess]_vars

\* extract_json on every body in every wrapping
InitJson ==
    /\ Quiet
    /\ \E b \in Bodies, w \in Wrappings :
           applied = [NoApply EXCEPT !.input = [body |-> b, wrapping |-> w]]

NextJson == ApplyExtract

SpecJson == InitJson /\ [][NextJson]_vars

\* intent_parser_node on every turn state, over an index of NumStored points
\* with any scores
InitIntent ==
    /\ Quiet
    /\ \E state \in [user_prompt : Prompts, documents : Documents,
                     form_snapshot : ExistingSnapshots],
          scores \in [1..NumStored -> ScoreValues] :
           applied = [NoApply EXCEPT
                        !.input = [state |-> state, scores |-> scores]]

NextIntent == ApplyIntent

SpecIntent == InitIntent /\ [][NextIntent]_vars

\* the worker loop never stops: `while True` around the cycle, every exception
\* of a cycle caught, a sleep between cycles
SpecLive == Init /\ [][Next]_vars /\ WF_vars(Worker("w1"))

\* ================================================================ claims
Range(q) == {q[i] : i \in 1..Len(q)}

\* ---------------------------------------------------------------- C1
\* poller p is between the existence check and the end of a materialization
\* of conversation c
Materializing(p, c) ==
    pc[p] \in {"exec", "m_exec"} /\ gs[p].conversation_id = c

C1_Rows ==
    \A c \in Convs :
        /\ Cardinality(FormsOf(c)) <= 1
        \* a materialization that runs while a row exists is on the update path
        /\ \A p \in Pollers :
               (Materializing(p, c) /\ FormsOf(c) # {})
                   => existing[p] \in FormsOf(c)
        \* a successful run returns the external id stored in the row
        /\ \A p \in Workers :
               (pc[p] = "respond" /\ gs[p].status = "completed"
                    /\ gs[p].conversation_id = c)
                   => \E f \in FormsOf(c) :
                          forms[f].google_form_id = gs[p].form_id
        /\ \A t \in TaskIds :
               (tasks[t].conversation_id = c /\ tasks[t].result.form_id # 0)
                   => \E f \in FormsOf(c) :
                          forms[f].google_form_id = tasks[t].result.form_id

C1_Step ==
    \* the row keeps its conversation and its external id
    /\ \A f \in FormIds :
           /\ forms'[f].google_form_id = forms[f].google_form_id
           /\ forms'[f].conversation_id = forms[f].conversation_id
    \* once the row exists no row and no external form is added for c
    /\ \A c \in Convs :
           FormsOf(c) # {} =>
               /\ \A f \in 1..Len(forms') :
                      forms'[f].conversation_id = c => f \in FormsOf(c)
               /\ \A p \in Pollers :
                      (Materializing(p, c) /\ pc'[p] # pc[p])
                          => Len(ext') = Len(ext)

\* C1: when poll cycles (and so the materializations) do not overlap, a
\* conversation never has more than one forms row; once the row exists every
\* later materialization takes the update path on the external id stored in
\* that row, returns that id when it succeeds, and creates neither an
\* external form nor a row.
Thm_C1 == []C1_Rows /\ [][C1_Step]_vars

\* the worker has updated, for the second task of a conversation, the form
\* that run_executor created for the first one
Witness_C1 ==
    \E p \in Workers :
        /\ pc[p] = "respond"
        /\ gs[p].status = "completed"
        /\ existing[p] # 0
        /\ forms[existing[p]].form_url
               = ResponderUri(forms[existing[p]].google_form_id)
        /\ Len(ext) = 1

\* ---------------------------------------------------------------- C2
\* C2: the claim of an execute_form task is committed by at most one poller,
\* so no task is handed to the executor pipeline twice (in a run without
\* storage or external failures).
CE_C2 ==
    \A t \in TaskIds :
        (faults = 0 /\ tasks[t].task_type = "execute_form")
            => Cardinality(tasks[t].claimed_by) <= 1

\* ---------------------------------------------------------------- C3
CreatedAt(t) == tasks[t].created_at

\* C3: a poll cycle takes up tasks that were pending at its fetch, oldest
\* first (everything taken up is older than everything still waiting, and
\* the tasks taken up are in increasing creation time); a cycle of
\* process_pending_executor_tasks that has ended has taken up every task that
\* was pending at its fetch.
CE_C3 ==
    /\ \A p \in Pollers :
           /\ Range(cycLog[p]) \subseteq cycPending[p]
           /\ \A i \in 1..Len(cycLog[p]) : \A j \in 1..Len(cycLog[p]) :
                  i < j => CreatedAt(cycLog[p][i]) < CreatedAt(cycLog[p][j])
           /\ \A i \in 1..Len(cycLog[p]) :
                  \A t \in cycPending[p] \ Range(cycLog[p]) :
                      CreatedAt(cycLog[p][i]) < CreatedAt(t)
    /\ \A p \in Workers :
           pc[p] = "idle" => Range(cycLog[p]) = cycPending[p]

\* ---------------------------------------------------------------- C4
C4_Kept ==
    \A p \in Workers :
        /\ cycPending[p] = Range(cycLog[p]) \cup Range(batch[p])
        /\ pc[p] = "idle" => batch[p] = <<>>

C4_Step ==
    \A p \in Workers :
        (pc[p] = "handler" /\ pc'[p] # "handler") =>
            /\ tasks'[Cur(p)].status = "failed"
            /\ batch'[p] = Tail(batch[p])
            /\ pc'[p] = IF batch'[p] = <<>> THEN "idle" ELSE "claim"

\* C4: when the processing of a task of the batch raises, the handler stores
\* status failed for that task and the loop goes on with the next task of the
\* batch; every task of the batch is taken up before the cycle ends.
CE_C4 == []C4_Kept /\ [][C4_Step]_vars

\* ---------------------------------------------------------------- C5
LacksCredentials(t) ==
    LET user == users[convs[tasks[t].conversation_id].user_id]
    IN ~user.google_access_token \/ ~user.google_refresh_token

\* C5: the run of an execute_form task whose user lacks a Google credential
\* returns status failed with error "missing_google_credentials", the task's
\* stored status ends as failed, and the task is executed only once (in a
\* run without storage or external failures).
CE_C5 ==
    \A t \in TaskIds :
        (faults = 0 /\ tasks[t].task_type = "execute_form"
             /\ LacksCredentials(t)) =>
            /\ \A p \in Workers :
                   (pc[p] = "finish" /\ gs[p].task_id = t) =>
                       /\ ~ProcessResult(gs[p]).success
                       /\ ProcessResult(gs[p]).error
                              = "missing_google_credentials"
            /\ (tasks[t].claimed_by # {}
                    /\ \A p \in Workers : batch[p] = <<>> \/ Cur(p) # t)
                   => tasks[t].status = "failed"
            /\ Cardinality(tasks[t].claimed_by) <= 1

\* ---------------------------------------------------------------- C6
\* the notification row sits at the end of the table after the step
C6_Notified(p) ==
    /\ tasks'[gs[p].task_id].status = "failed"
    /\ Len(tasks') = Len(tasks) + 1
    /\ LET n == tasks'[Len(tasks')] IN
           /\ n.status = "pending"
           /\ n.task_type = "form_creation_failed"
           /\ n.source_agent = "executor"
           /\ n.target_agent = "planner"
           /\ n.conversation_id = tasks[gs[p].task_id].conversation_id
           /\ n.task_payload.error = gs[p].error
           /\ n.task_payload.details = gs[p].details

\* C6: the Response Stage of a run that ended in failure (a failure of the
\* Extraction Stage included) stores the task as failed and adds exactly one
\* pending form_creation_failed notification from executor to planner for
\* the task's conversation, carrying the error and details of the failure
\* (in a run without storage or external failures).
CE_C6 ==
    [][\A p \in Workers :
          (pc[p] = "respond" /\ pc'[p] = "finish" /\ gs[p].status = "failed"
               /\ faults' = 0)
              => C6_Notified(p)]_vars

\* ---------------------------------------------------------------- C7
C7_Published(p) ==
    LET s == gs[p] IN
    /\ s.form_id \in 1..Len(ext)
    /\ s.form_url # NoUrl
    /\ tasks'[s.task_id].status = "completed"
    /\ convs'[s.conversation_id].executor_state.form_id = s.form_id
    /\ convs'[s.conversation_id].executor_state.form_url = s.form_url
    /\ convs'[s.conversation_id].executor_state.status = "published"
    /\ Len(tasks') = Len(tasks) + 1
    /\ LET n == tasks'[Len(tasks')] IN
           /\ n.status = "pending"
           /\ n.task_type = "form_created"
           /\ n.source_agent = "executor"
           /\ n.target_agent = "planner"
           /\ n.conversation_id = tasks[s.task_id].conversation_id
           /\ n.task_payload.form_id = s.form_id
           /\ n.task_payload.form_url = s.form_url

CE_C8 ==
    faults = 0 =>
        \A t \in TaskIds :
            tasks[t].task_type = "execute_form" =>
                /\ Terminal(tasks[t].status)
                       <=> \E n \in TaskIds : tasks[n].origin = t
                /\ \A n \in TaskIds :
                       (tasks[n].origin = t
                            /\ tasks[n].task_type = "form_created")
                           => convs[tasks[t].conversation_id]
                                  .executor_state.status = "published"

\* ---------------------------------------------------------------- C9
\* C9: an execute_form task whose stored status is failed has its error
\* message column set (in a run without storage or external failures).
CE_C9 ==
    \A t \in TaskIds :
        (faults = 0 /\ tasks[t].task_type = "execute_form"
             /\ tasks[t].status = "failed")
            => tasks[t].error_message # Null

\* ---------------------------------------------------------------- C10
\* C10: a stored status of completed or failed never changes again (in a
\* run without storage or external failures).
CE_C10 ==
    [][faults' = 0 =>
          \A t \in TaskIds :
              Terminal(tasks[t].status)
                  => tasks'[t].status = tasks[t].status]_vars

\* --------------------------------------------------------------- C11
C11_Pending(t) ==
    /\ t \in TaskIds
    /\ tasks[t].target_agent = "executor"
    /\ tasks[t].task_type = "execute_form"
    /\ tasks[t].status = "pending"

C11_TakenUp(t) == t \in TaskIds /\ tasks[t].status # "pending"

\* C11: with the worker loop scheduled fairly, every execute_form task that
\* is pending for the executor, one enqueued in the middle of a poll cycle
\* included, is taken up by a poll cycle and leaves the pending status; a
\* cycle in which an exception was raised is followed by further polling.
Thm_C11 ==
    /\ \A t \in 1..(2 * MaxExec) : C11_Pending(t) ~> C11_TakenUp(t)
    /\ \A p \in {"w1"} : (pc[p] = "handler") ~> (pc[p] \in {"idle", "claim"})

\* a task enqueued while the cycle of an earlier task was running has been
\* claimed by a later cycle
Witness_C11 ==
    \E t1, t2, n \in TaskIds :
        /\ t1 # t2
        /\ tasks[n].origin = t1
        /\ tasks[t2].task_type = "execute_form"
        /\ CreatedAt(t2) < CreatedAt(n)
        /\ cycPending["w1"] = {t2}
        /\ tasks[t2].claimed_by = {"w1"}

\* --------------------------------------------------------------- C12
InPipeline == {"extract", "lookup", "exec", "respond"}

C12_Payload ==
    \A p \in Workers :
        \* the payload exists after the Response Stage and not before it
        /\ pc[p] = "finish" => gs[p].response_payload.present
        /\ pc[p] \in InPipeline => ~gs[p].response_payload.present

C12_Step ==
    \A p \in Workers :
        \* a failed extraction goes straight to the Response Stage
        /\ (pc[p] = "extract" /\ pc'[p] # "extract"
                /\ gs'[p].status = "failed")
               => /\ pc'[p] = "respond"
                  /\ existing' = existing /\ ext' = ext /\ forms' = forms
        \* the stages before the Response Stage lead nowhere else
        /\ (pc[p] \in {"extract", "lookup", "exec"} /\ pc'[p] # pc[p])
               => pc'[p] \in {"lookup", "exec", "respond"}
        \* the Response Stage is the last stage and is entered once per run
        /\ (pc[p] = "respond" /\ pc'[p] # "respond")
               => pc'[p] = "finish" /\ gs'[p].response_payload.present
        /\ (pc'[p] = "finish" /\ pc[p] # "finish") => pc[p] = "respond"
        /\ (pc'[p] = "respond" /\ pc[p] # "respond")
               => pc[p] \in {"extract", "lookup", "exec"}

\* C12: in a run of the executor graph a failed Extraction Stage is followed
\* at once by the Response Stage, with no existence lookup, no external call
\* and no forms row written; every run started reaches the Response Stage,
\* which runs once, as the last stage, and leaves a response payload.
Thm_C12 ==
    /\ []C12_Payload
    /\ [][C12_Step]_vars
    /\ \A p \in {"w1"} : (pc[p] = "extract") ~> (pc[p] = "finish")

\* a run whose extraction failed has passed the Response Stage
Witness_C12 ==
    \E p \in Workers :
        /\ pc[p] = "finish"
        /\ gs[p].conversation_id = 0
        /\ gs[p].response_payload.present
        /\ ~gs[p].response_payload.success

\* --------------------------------------------------------------- C13
GenerationErrors ==
    {"llm_failure", "empty_llm_response", "invalid_json",
     "conversation_not_found", "db_error"}

\* the rows the turn in progress has added to agent_tasks
C13_Enqueued == (ps.before.ntasks + 1)..Len(tasks)

C13_Turn ==
    /\ ps.node \in {"llm_inference", "a2a_sender"} => C13_Enqueued = {}
    /\ ps.node = "end" =>
         /\ ps.error \in GenerationErrors => C13_Enqueued = {}
         /\ ps.error = Null =>
              /\ Cardinality(C13_Enqueued) = 1
              /\ \A t \in C13_Enqueued :
                   /\ tasks[t].status = "pending"
                   /\ tasks[t].task_type = "execute_form"
                   /\ tasks[t].source_agent = "planner"
                   /\ tasks[t].target_agent = "executor"
                   /\ tasks[t].conversation_id = ps.conversation_id
                   /\ tasks[t].task_payload.snapshot = ps.parsed
                   /\ convs[ps.conversation_id].form_snapshot = ps.parsed
                   /\ ps.parsed # 0
         /\ C13_Enqueued # {} => ps.error = Null

C13_Step ==
    \* an error of the Generation Stage ends the pipeline
    (ps.node = "llm_inference" /\ ps'.node # "llm_inference") =>
        /\ ps'.error # Null => ps'.node = "end"
        /\ ps'.error = Null => ps'.node = "a2a_sender"

C14_NeedsRepair(o) ==
    ~o.raised /\ ~Falsy(o.text) /\ extract_json(o.text) = 0

C14_Calls ==
    ps.node \in {"a2a_sender", "end"} =>
        /\ Len(ps.log) \in {1, 2}
        /\ Len(ps.log) = 2 <=> C14_NeedsRepair(ps.log[1])
        \* the second call is the repair request, made once whatever it gives
        /\ Len(ps.log) = 2 =>
               ps.log[2].raised \/ ps.log[2].text.call = 2

\* C14: one invocation of llm_inference_node calls llm.generate once when
\* that call raises, returns empty text or returns text that extracts, and
\* twice (the second being the repair request) when the first text fails
\* extraction; there is no third call.
Thm_C14 == []C14_Calls

\* the generation call raised and was not repeated
Witness_C14 ==
    /\ ps.node = "end"
    /\ Len(ps.log) = 1
    /\ ps.log[1].raised
    /\ ps.error = "llm_failure"

\* --------------------------------------------------------------- C15
\* the original text failed extraction and the repair call raised or gave a
\* text that fails extraction too
C15_RepairFailed ==
    /\ Len(ps.log) = 2
    /\ ps.log[2].raised \/ extract_json(ps.log[2].text) = 0

C15_Result ==
    (ps.node \in {"a2a_sender", "end"} /\ C15_RepairFailed) =>
        /\ ps.node = "end"
        /\ ps.error = "invalid_json"
        /\ ps.raw_output = ps.log[1].text
        /\ ps.llm_output = 0
        /\ ps.conversation_id \in Convs =>
               convs[ps.conversation_id].form_snapshot = ps.before.snapshot
        /\ index = ps.before.index
        /\ Len(tasks) = ps.before.ntasks

\* C15: when extraction fails on the original text and the repair call raises
\* or its text fails extraction too, the turn ends with error invalid_json
\* and raw_output the original text; the stored snapshot, the retrieval index
\* and agent_tasks are as they were when the turn began.
Thm_C15 == []C15_Result

\* the repair call raised in a turn on a conversation that had a snapshot
Witness_C15 ==
    /\ ps.node = "end"
    /\ C15_RepairFailed
    /\ ps.log[2].raised
    /\ ps.before.snapshot # 0
    /\ ps.error = "invalid_json"

\* --------------------------------------------------------------- C16
\* the snapshot of the turn has been committed
C16_Persisted == ps.indexing # Null

C16_Swallowed ==
    (ps.node \in {"a2a_sender", "end"} /\ C16_Persisted) =>
        /\ ps.llm_output = ps.parsed /\ ps.parsed # 0
        /\ convs[ps.conversation_id].form_snapshot = ps.parsed
        /\ ps.node = "a2a_sender" => ps.error = Null
        /\ ps.error \in {Null, "a2a_sender_db_error"}
        \* the follow-on task, unless its own insert failed
        /\ (ps.node = "end" /\ ps.error = Null) =>
               /\ Len(tasks) = ps.before.ntasks + 1
               /\ tasks[Len(tasks)].task_payload.snapshot = ps.parsed
        \* a swallowed failure leaves the index as it was
        /\ ps.indexing # "stored" => index = ps.before.index

C16_Step ==
    (ps.node = "llm_inference" /\ ps'.indexing # Null) =>
        ps'.node = "a2a_sender" /\ ps'.error = Null

PointsOf(idx, c) == {q \in idx : q.id = c}

C17_OnePerId == \A c \in Convs : Cardinality(PointsOf(index, c)) <= 1

C17_Latest ==
    (icall.made /\ ~icall.raised) =>
        /\ PointsOf(index, icall.conversation_id)
               = {PointStruct(icall.conversation_id, icall.vector,
                              icall.payload)}
        /\ \A c \in Convs \ {icall.conversation_id} :
               PointsOf(index, c) = PointsOf(icall.before, c)

\* C17: after any sequence of store_embedding calls the index holds at most
\* one record per conversation id; a call that succeeds leaves for its id
\* exactly the record with the vector and payload of that call, also when a
\* record with another vector and payload was there, and leaves the records
\* of the other conversations as they were.
Thm_C17 == [](C17_OnePerId /\ C17_Latest)

\* a second upsert for the same id with another vector and payload
Witness_C17 ==
    /\ icall.made /\ ~icall.raised
    /\ \E q \in PointsOf(icall.before, icall.conversation_id) :
           /\ q.vector # icall.vector
           /\ q.payload.form_snapshot # icall.payload
    /\ Cardinality(PointsOf(index, icall.conversation_id)) = 1

\* --------------------------------------------------------------- C18
C18_Rejected ==
    (icall.made /\ icall.vector.len # vector_size) =>
        /\ icall.raised
        /\ icall.error = "Vector dimension mismatch"
        /\ index = icall.before

\* C18: a store_embedding call with a vector whose length is not 1536 raises
\* the dimension-mismatch error and leaves the index as it was: no record is
\* added and none is replaced.
Thm_C18 == []C18_Rejected

\* a vector of the wrong length was refused for an id that has a record
Witness_C18 ==
    /\ icall.made /\ icall.raised
    /\ icall.vector.len = 768
    /\ PointsOf(index, icall.conversation_id) # {}

\* --------------------------------------------------------------- C19
C19_TaskFound(t) == t \in TaskIds
C19_ConvFound(t) == C19_TaskFound(t) /\ tasks[t].conversation_id \in Convs
C19_UserFound(t) ==
    C19_ConvFound(t) /\ convs[tasks[t].conversation_id].user_id \in Users
C19_Credentials(t) ==
    /\ C19_UserFound(t)
    /\ users[convs[tasks[t].conversation_id].user_id].google_access_token
    /\ users[convs[tasks[t].conversation_id].user_id].google_refresh_token

\* what the stage reports for task t when the four checks are made in order
C19_FirstFailure(t) ==
    IF ~C19_TaskFound(t) THEN "task_not_found"
    ELSE IF ~C19_ConvFound(t) THEN "conversation_not_found"
    ELSE IF ~C19_UserFound(t) THEN "user_not_found"
    ELSE IF ~C19_Credentials(t) THEN "missing_google_credentials"
    ELSE Null

C19_Step ==
    \A p \in Workers :
        (pc[p] = "extract" /\ pc'[p] # "extract"
             /\ gs'[p].error # "extraction_error") =>
            LET t == gs[p].task_id
                s == gs'[p]
            IN /\ C19_FirstFailure(t) # Null =>
                      s.status = "failed" /\ s.error = C19_FirstFailure(t)
               /\ s.status # "failed" =>
                      /\ C19_Credentials(t)
                      /\ s.conversation_id = tasks[t].conversation_id
                      /\ s.form_snapshot = tasks[t].task_payload.snapshot
                      /\ s.form_snapshot # 0
                      /\ s.access_token /\ s.refresh_token

\* C19: extract_task_node looks up the task, its conversation and the
\* conversation's user and tests the user's two tokens, in that order, and
\* reports the first of these that fails as task_not_found,
\* conversation_not_found, user_not_found or missing_google_credentials; it
\* returns a status other than failed only when all four hold, and the state
\* then holds the conversation id, the snapshot and both tokens.
Thm_C19 == [][C19_Step]_vars

\* the conversation of the task was gone
Witness_C19 ==
    \E p \in Workers :
        /\ pc[p] = "respond"
        /\ gs[p].error = "conversation_not_found"
        /\ C19_TaskFound(gs[p].task_id)
        /\ ~C19_ConvFound(gs[p].task_id)

\* --------------------------------------------------------------- C20
\* the items made from a snapshot's fields, file fields left out, in order
RECURSIVE C20_ItemsFrom(_)
C20_ItemsFrom(fields) ==
    IF fields = <<>>
    THEN <<>>
    ELSE (IF Head(fields).type = "file" THEN <<>> ELSE <<Item(Head(fields))>>)
             \o C20_ItemsFrom(Tail(fields))

\* C20: when update_google_form returns successfully the external form's
\* items are exactly the items made from the snapshot's fields, file fields
\* left out, in snapshot order, and none of the items that were there
\* before is left.
CE_C20 ==
    (upd.step = "done" /\ upd.result = "success")
        => upd.items = C20_ItemsFrom(upd.fields)

\* --------------------------------------------------------------- C21
\* the field types of the schema's enum
SchemaTypes ==
    {"text", "paragraph", "email", "phone", "number", "dropdown",
     "checkbox", "radio", "date", "time", "file", "rating"}

\* the title an operation gives its item
C21_Title(op) ==
    IF applied.fn = "convert_field_to_question" THEN op.item.title
    ELSE op.title

C21_NonFile(fields) ==
    LET Test(f) == f.type # "file" IN SelectSeq(fields, Test)

C21_FileLabels(fields) ==
    LET Test(f) == f.type = "file"
        files == SelectSeq(fields, Test)
    IN [k \in 1..Len(files) |-> files[k].label]

\* C21: for every snapshot of supported fields, the item-creation operations
\* of the materialization converters (convert_field_to_question on the
\* create_google_form / update_google_form path, convert_fields_to_questions
\* on the graph path) are one per non-file field, in field order, none for a
\* file field, and the skipped list is the labels of the file fields.
\* Violated: convert_fields_to_questions emits a FILE_UPLOAD question for a
\* file field and keeps no skipped list.
CE_C21 ==
    (/\ applied.fn \in {"convert_field_to_question",
                        "convert_fields_to_questions"}
     /\ \A k \in 1..Len(applied.input) :
            applied.input[k].type \in SchemaTypes)
        => LET ops == applied.output.requests
               kept == C21_NonFile(applied.input)
           IN /\ Len(ops) = Len(kept)
              /\ \A k \in 1..Len(ops) : C21_Title(ops[k]) = kept[k].label
              /\ applied.output.skipped_fields
                     = C21_FileLabels(applied.input)

\* --------------------------------------------------------------- C22
\* the fields the operations of the applied converter stand for, in order
C22_Sources ==
    IF applied.fn = "convert_field_to_question"
    THEN C21_NonFile(applied.input)
    ELSE applied.input

\* the operation is a scale question with the bounds of the field
C22_Scale(op, field) ==
    LET low == Get(field.validation.min, 1)
        high == Get(field.validation.max, 5)
    IN CASE applied.fn = "convert_field_to_question" ->
                op.item.question = "scaleQuestion"
         [] applied.fn = "convert_fields_to_questions" ->
                op.type = "SCALE" /\ op.min = low /\ op.max = high
         [] OTHER ->
                /\ op.question = "scaleQuestion"
                /\ op.low = low
                /\ op.high = high

\* C22: whichever converter materializes the snapshot, a field of type
\* rating becomes a scale question whose bounds are the field's validation
\* min and max, 1 and 5 where the field has none.
\* Violated: convert_field_to_question, the converter of create_google_form
\* and update_google_form, has no rating branch and emits a text question.
CE_C22 ==
    (applied.fn # "none")
        => \A k \in 1..Len(C22_Sources) :
               C22_Sources[k].type = "rating"
                   => C22_Scale(applied.output.requests[k], C22_Sources[k])

\* --------------------------------------------------------------- C23
\* a route call that ran a planner turn and the turn failed
C23_FailedTurn == http.step = "returned" /\ http.error # Null

\* C23: when the planner turn of a route call fails, on create_conversation
\* and on continue_conversation alike, the caller gets the error (HTTP 500)
\* and the conversation is left with status failed.
\* Violated: continue_conversation raises the HTTP 500 but never writes the
\* status; the conversation stays active.
CE_C23 ==
    C23_FailedTurn
        => /\ http.code = 500
           /\ convs[http.conversation_id].status = "failed"

\* --------------------------------------------------------------- C24
C24_Called ==
    applied.fn \in {"ExecutorAgent.process", "PlannerAgent.process"}

C24_Generic ==
    IF applied.fn = "ExecutorAgent.process" THEN "executor_exception"
    ELSE "planner_exception"

\* C24: ExecutorAgent.process and PlannerAgent.process never raise; a stage
\* failure comes back as the error of the result, and an exception caught at
\* the entry comes back as success false with the error "executor_exception"
\* or "planner_exception".
\* Violated: PlannerAgent.process returns str(e) as the error.
CE_C24 ==
    C24_Called
        => /\ ~applied.output.raised
           /\ applied.input.outcome.raised
                  => /\ ~applied.output.success
                     /\ applied.output.error = C24_Generic

\* --------------------------------------------------------------- C25
\* C25: a task whose target is the planner (the form_created and
\* form_creation_failed notifications) is never claimed or status-changed by
\* an executor poller; a poller claims only pending execute_form tasks
\* targeted at the executor.
\* Violated: run_executor selects the oldest pending task whatever its
\* target and type, and claims the notification.
CE_C25 ==
    \A t \in TaskIds :
        tasks[t].target_agent = "planner"
            => /\ tasks[t].claimed_by = {}
               /\ tasks[t].status = "pending"

\* --------------------------------------------------------------- C26
\* a notification the executor enqueued for the planner, still pending
C26_Notified(t) ==
    /\ t \in TaskIds
    /\ tasks[t].source_agent = "executor"
    /\ tasks[t].target_agent = "planner"
    /\ tasks[t].status = "pending"

\* C26: every task one stage enqueues is consumed exactly once by the other
\* stage's poller; in particular every form_created / form_creation_failed
\* notification the executor enqueues for the planner eventually leaves the
\* pending status, and no task is claimed more than once.
\* Violated: no poller selects tasks whose target is the planner, so with
\* the worker loop running fairly a notification stays pending for ever.
CE_C26 ==
    /\ \A t \in 1..(2 * MaxExec) : C26_Notified(t) ~> C11_TakenUp(t)
    /\ [](\A t \in TaskIds : Cardinality(tasks[t].claimed_by) <= 1)

\* --------------------------------------------------------------- C27
\* a route call that ran a planner turn and has answered
C27_TurnDone == http.step = "returned" /\ http.code \notin {400, 404}

\* the turn saved a snapshot (step 3 of llm_inference_node committed)
C27_Persisted == ps.indexing # Null

\* C27: a conversation's version never decreases; a turn that persisted a
\* new snapshot and succeeded, the first creation and every continuation,
\* leaves it one higher; a failed turn leaves it as it was.
\* Violated: create_conversation inserts the row with version 0 and never
\* bumps it, so the first snapshot is persisted at version 0.
CE_C27 ==
    C27_TurnDone
        => LET v == convs[http.conversation_id].current_version
               b == http.before.current_version
           IN /\ v >= b
              /\ http.error # Null => v = b
              /\ (C27_Persisted /\ http.error = Null) => v = b + 1

\* --------------------------------------------------------------- C28
\* the text is a JSON object between an opening and a closing fence marker
C28_FencedObject ==
    /\ applied.fn = "extract_json"
    /\ applied.input.wrapping \in {"fenced_json", "fenced"}
    /\ applied.input.body \in Objects

\* C28: for a text that is a valid JSON object wrapped in code-fence
\* markers, extract_json returns the object it returns for the unwrapped
\* text; and whatever extract_json returns is an object, an array or a
\* scalar being malformed.
\* Violated: the fence removal deletes every fence marker of the text, the
\* ones inside the object's strings too, so the object comes back changed.
CE_C28 ==
    /\ C28_FencedObject
           => /\ applied.output = ExtractJson(applied.input.body)
              /\ applied.output
                     = [raised |-> FALSE, value |-> applied.input.body]
    /\ (applied.fn = "extract_json" /\ ~applied.output.raised)
           => IsDict(applied.output.value)

\* --------------------------------------------------------------- C29
C29_Claimed(t) ==
    t \in TaskIds /\ tasks[t].status \in {"processing", "in_progress"}

C29_Done(t) ==
    t \in TaskIds /\ tasks[t].status \in {"completed", "failed"}

\* C29: every claimed task (status processing or in_progress) eventually
\* reaches status completed or failed, and a claimed task is never handed
\* back to the queue (no step returns it to pending).
CE_C29 ==
    /\ \A t \in 1..(2 * MaxExec) : C29_Claimed(t) ~> C29_Done(t)
    /\ [][\A t \in TaskIds :
              C29_Claimed(t) => tasks'[t].status # "pending"]_vars

\* --------------------------------------------------------------- C30
\* step 3 of the call has been carried out (or its batchUpdate was sent)
C30_PastInfo ==
    \/ upd.step \in {"create", "final"}
    \/ upd.step = "done" /\ upd.result = "success"
    \/ upd.info_requests # {}

C30_Sent ==
    /\ "title" \in upd.info_requests
           <=> upd.new_title # upd.before_info.title
    /\ "description" \in upd.info_requests
           <=> upd.new_description # upd.before_info.description

C30_Equal ==
    /\ upd.title = upd.new_title
    /\ upd.description = upd.new_description

\* C30: on the update path a title update is sent exactly when the snapshot's
\* title differs from the form's current title and a description update
\* exactly when the snapshot's description differs from the current one;
\* after a successful update the external title and description are the
\* snapshot's.
CE_C30 ==
    /\ C30_PastInfo => C30_Sent
    /\ (upd.step = "done" /\ upd.result = "success") => C30_Equal

\* --------------------------------------------------------------- C31
\* C31: for a snapshot with k non-file fields, the createItem operations
\* carry the insertion indices 0, 1, ..., k-1 in field order: a skipped file
\* field lowers the index of every later item by one.
\* Violated: convert_to_google_forms_node passes the field's own position
\* and skips nothing, so a file field gets an item of its own.
CE_C31 ==
    (applied.fn \in {"convert_field_to_question",
                     "convert_to_google_forms_node"})
        => LET ops == applied.output.requests
               k == Len(C21_NonFile(applied.input))
           IN /\ Len(ops) = k
              /\ \A j \in 1..Len(ops) : ops[j].index = j - 1

\* --------------------------------------------------------------- C32
\* the operation is a short-answer text item
C32_ShortText(op) ==
    CASE applied.fn = "convert_field_to_question" ->
             op.item.question = "textQuestion"
      [] applied.fn = "convert_fields_to_questions" ->
             op.type = "SHORT_ANSWER"
      [] OTHER -> op.question = "textQuestion"

\* C32: whichever converter materializes the snapshot, a field whose type is
\* not a recognized one becomes a short-answer text item, and the conversion
\* still yields one operation for every field it materializes (none of the
\* other fields is dropped).
\* Violated: the if/elif chain of convert_fields_to_questions has no else
\* branch, so the question of an unrecognized type carries no type at all.
CE_C32 ==
    (applied.fn # "none")
        => /\ Len(applied.output.requests) = Len(C22_Sources)
           /\ \A k \in 1..Len(C22_Sources) :
                  /\ C21_Title(applied.output.requests[k])
                         = C22_Sources[k].label
                  /\ C22_Sources[k].type \notin SchemaTypes
                         => C32_ShortText(applied.output.requests[k])

\* --------------------------------------------------------------- C33
C33_Done == applied.fn = "intent_parser_node"

C33_Retrieval ==
    LET state == applied.input.state
        out == applied.output
    IN /\ out.calls # <<>> => state.form_snapshot = NoSnapshot
       /\ out.llm_input.task = "update" => out.calls = <<>>
       /\ \A k \in 1..Len(out.calls) :
              out.calls[k].fn = "retrieve_similar"
                  => /\ out.calls[k].limit = 3
                     /\ out.calls[k].score_threshold = 5
       /\ Len(out.llm_input.examples) <= 3
       /\ \A k \in 1..Len(out.llm_input.examples) :
              out.llm_input.examples[k].score >= 5

C33_NonFatal ==
    LET state == applied.input.state
        out == applied.output
    IN /\ out.llm_input.user_prompt = state.user_prompt
       /\ out.llm_input.task \in {"create", "update"}
       /\ (out.embed_raised \/ out.search_raised)
              => out.llm_input.examples = <<>>

C34_ExecutorStep ==
    \/ \E p \in Workers : Worker(p)
    \/ \E p \in Mains : Main(p)

C34_Frame ==
    /\ DOMAIN convs' = DOMAIN convs
    /\ \A c \in DOMAIN convs :
           /\ convs'[c].status = convs[c].status
           /\ convs'[c].form_snapshot = convs[c].form_snapshot
           /\ convs'[c].current_version = convs[c].current_version
           /\ convs'[c].user_id = convs[c].user_id

\* C34: no step of the executor side (pollers, extraction, materialization,
\* response) changes a conversation's lifecycle status, snapshot or version
\* counter or removes a conversation; the executor state is the only
\* conversation field it writes.
Thm_C34 == [][C34_ExecutorStep => C34_Frame]_vars

\* the response stage has stamped the executor state of a conversation that
\* is still active with its snapshot in place
Witness_C34 ==
    \E c \in Convs :
        /\ convs[c].executor_state.status = "published"
        /\ convs[c].status = "active"
        /\ convs[c].form_snapshot # 0

\* --------------------------------------------------------------- C35
\* the forms rows of a conversation
C35_Rows(c) == {f \in FormIds : forms[f].conversation_id = c}

\* C35: whenever ExecutorAgent.process returns success true, the returned
\* form id is set and a forms row of the task's conversation carries it as
\* its external form id.
Thm_C35 ==
    \A p \in Workers :
        (pc[p] = "finish" /\ ProcessResult(gs[p]).success)
            => /\ ProcessResult(gs[p]).form_id # 0
               /\ \E f \in C35_Rows(gs[p].conversation_id) :
                      forms[f].google_form_id = ProcessResult(gs[p]).form_id

\* a run that created the form and its row has returned success
Witness_C35 ==
    \E p \in Workers :
        /\ pc[p] = "finish"
        /\ ProcessResult(gs[p]).success
        /\ existing[p] = 0
        /\ C35_Rows(gs[p].conversation_id) # {}

\* --------------------------------------------------------------- C36
\* the external forms the rows of a conversation point to
C36_ExternalForms(c) == {forms[f].google_form_id : f \in FormsOf(c)}

\* C36: when materializations of two tasks of one conversation interleave,
\* the conversation still gets at most one forms row and at most one
\* external form (stated for runs without storage or external failures in
\* which no task is claimed twice, so that only the interleaving matters).
CE_C36 ==
    (/\ faults = 0
     /\ \A t \in TaskIds : Cardinality(tasks[t].claimed_by) <= 1)
        => \A c \in Convs :
               /\ Cardinality(FormsOf(c)) <= 1
               /\ Cardinality(C36_ExternalForms(c)) <= 1

\* --------------------------------------------------------------- C37
\* C37: after any planner turns, a point the index holds for a conversation
\* carries the conversation's stored snapshot, so the snapshot a continuation
\* hands to the planner (index first, stored row as fallback) is the stored
\* one.
CE_C37 ==
    \A c \in Convs :
        /\ \A q \in index :
               q.id = c => q.payload.form_snapshot = convs[c].form_snapshot
        /\ \A qok \in BOOLEAN :
               ContinuationSnapshot(c, qok) = convs[c].form_snapshot

\* --------------------------------------------------------------- C38
\* the turn has ended with an error
C38_Failed ==
    ps.node = "end" /\ ps.error # Null /\ ps.conversation_id \in Convs

\* C38: when a planner turn returns an error, from the Generation Stage or
\* from the task-enqueue stage, the conversation's stored snapshot and the
\* index are what they were before the turn.
CE_C38 ==
    C38_Failed
        => /\ convs[ps.conversation_id].form_snapshot = ps.before.snapshot
           /\ index = ps.before.index

\* --------------------------------------------------------------- C39
\* the execute_form tasks queued for a conversation
C39_Tasks(c) ==
    {t \in TaskIds : /\ tasks[t].conversation_id = c
                     /\ tasks[t].task_type = "execute_form"}

\* the task enqueued last for a conversation
C39_Last(c) == CHOOSE t \in C39_Tasks(c) : \A u \in C39_Tasks(c) : u <= t

\* every queued task of the conversation has been processed, the last one
\* with success, and no poller is in the middle of a cycle
C39_AllProcessed(c) ==
    /\ Cardinality(C39_Tasks(c)) >= 2
    /\ \A t \in C39_Tasks(c) : tasks[t].status \in {"completed", "failed"}
    /\ tasks[C39_Last(c)].status = "completed"
    /\ \A p \in Workers : pc[p] = "idle"

\* C39: once the several execute_form tasks queued for one conversation have
\* all been processed, the external form holds the snapshot of the task
\* enqueued last, so an older snapshot has not overwritten a newer one
\* (stated for runs without storage or external failures in which no task is
\* claimed twice and the conversation has a single forms row, so that only
\* the order of the updates matters).
CE_C39 ==
    (/\ faults = 0
     /\ \A t \in TaskIds : Cardinality(tasks[t].claimed_by) <= 1)
        => \A c \in Convs :
               (C39_AllProcessed(c) /\ Cardinality(FormsOf(c)) = 1)
                   => \A f \in FormsOf(c) :
                          ext[forms[f].google_form_id].content
                              = tasks[C39_Last(c)].task_payload.snapshot

============================================================================
